---- MODULE Spec2Model ----
(***************************************************************************)
(* Model of the reporting toolkit: the TestAggregator (normalizer, file    *)
(* loaders, summary), the NotificationSystem (rules, rate limiting,        *)
(* delivery) and the empty-input paths of MetricsCalculator and            *)
(* AnalyticsEngine.                                                        *)
(*                                                                         *)
(* Floating point numbers are modelled exactly: durations are integers     *)
(* (whole seconds) and rates are rationals [n, d].  Python values of       *)
(* differing type are tagged records [k, n, s] so that a duration may be a *)
(* number, a string, None, or absent from the input.                       *)
(***************************************************************************)
EXTENDS Integers, Sequences, FiniteSets, TLC

VARIABLES
    results,                 \* TestAggregator.results
    source_files,            \* TestAggregator.source_files
    last,                    \* the last aggregator call; for add_results its input file,
                             \* the records held before it and whether it raised
    rules,                   \* NotificationSystem.rules
    last_notification_times, \* NotificationSystem.last_notification_times
    notification_history,    \* NotificationSystem.notification_history
    config,                  \* NotificationSystem.config (the configured channels)
    now,                     \* datetime.now(), in minutes
    call,                    \* the running send_test_results_notification call
    engine,                  \* the last MetricsCalculator / AnalyticsEngine evaluation
    query,                   \* the last aggregator query: its name, argument and outcome
    generated                \* the last MockAIService.generate_tests_from_story result

aggVars == <<results, source_files, last>>
notifyVars == <<rules, last_notification_times, notification_history, config, now, call>>
vars == <<results, source_files, last, rules, last_notification_times,
          notification_history, config, now, call, engine, query, generated>>

(***************************************************************************)
(* Bounds                                                                  *)
(***************************************************************************)
MaxResults == 2
MaxSources == 1

(***************************************************************************)
(* Python values                                                           *)
(***************************************************************************)
Num(n) == [k |-> "num", n |-> n, s |-> ""]
Str(s) == [k |-> "str", n |-> 0, s |-> s]
NoneVal == [k |-> "none", n |-> 0, s |-> ""]
Absent == [k |-> "absent", n |-> 0, s |-> ""]

\* float(x): a number is kept, the text of a number is parsed, any other
\* text raises ValueError and None raises TypeError.
FloatTexts == {"0", "1", "2"}
TextValue(s) == CASE s = "0" -> 0 [] s = "1" -> 1 [] s = "2" -> 2 [] OTHER -> 0
float(x) ==
    CASE x.k = "num" -> [ok |-> TRUE, v |-> Num(x.n)]
      [] x.k = "str" /\ x.s \in FloatTexts -> [ok |-> TRUE, v |-> Num(TextValue(x.s))]
      [] OTHER -> [ok |-> FALSE, v |-> Num(0)]

\* Rationals n/d with d > 0.
Rat(n, d) == [n |-> n, d |-> d]
RatEq(a, b) == a.n * b.d = b.n * a.d
RatLe(a, b) == a.n * b.d <= b.n * a.d

\* sum(s), adding the two halves of the sequence.
RECURSIVE SeqSum(_)
SeqSum(s) ==
    IF s = <<>> THEN 0
    ELSE IF Len(s) = 1 THEN s[1]
    ELSE SeqSum(SubSeq(s, 1, Len(s) \div 2)) + SeqSum(SubSeq(s, (Len(s) \div 2) + 1, Len(s)))

Count(rs, st) == Cardinality({i \in DOMAIN rs : rs[i].status = st})

(***************************************************************************)
(* TestResult                                                              *)
(***************************************************************************)
NoStatus == "<absent>"

\* A timestamp value: the ISO text of a naive local time t (minutes), the
\* ISO text of a time with the suffix Z, a text that is no ISO time, or None.
Iso(t) == [k |-> "iso", t |-> t]
IsoZ(t) == [k |-> "isoZ", t |-> t]
BadTime == [k |-> "text", t |-> 0]
NoTimestamp == [k |-> "none", t |-> 0]

\* kwargs.get(key, default)
Get(kwargs, key, default) == IF key \in DOMAIN kwargs THEN kwargs[key] ELSE default

\* TestResult.__init__(**kwargs): every field is kwargs.get(field, default);
\* the value given is stored as it is.  The default timestamp is
\* datetime.now().isoformat().
TestResult(kwargs) ==
    [id        |-> Get(kwargs, "id", Str("")),
     name      |-> Get(kwargs, "name", Str("")),
     suite     |-> Get(kwargs, "suite", Str("")),
     category  |-> Get(kwargs, "category", Str("")),
     status    |-> IF kwargs.status = NoStatus THEN "UNKNOWN" ELSE kwargs.status,
     duration  |-> IF kwargs.duration.k = "absent" THEN Num(0) ELSE kwargs.duration,
     timestamp |-> Get(kwargs, "timestamp", Iso(now))]

(***************************************************************************)
(* Inputs of add_results                                                   *)
(***************************************************************************)
MaxBatch == 2      \* longest list handed to add_results
MaxFileLen == 2    \* most records in one input file
Min(a, b) == IF a < b THEN a ELSE b

SeqsUpTo(S, n) == UNION {[1..m -> S] : m \in 0..n}

Statuses == {"PASSED", "FAILED", "SKIPPED", "ERROR", "UNKNOWN"}

\* An element of a list given to add_results: a dict, a TestResult object,
\* or a value of any other type.
DictItems ==
    [kind : {"dict"}, status : Statuses, duration : {Num(2)}]
    \cup {[kind |-> "dict", status |-> NoStatus, duration |-> Absent],
          [kind |-> "dict", status |-> "PASSED", duration |-> Str("abc")]}
ObjectItems == {[kind |-> "TestResult", status |-> "FAILED", duration |-> Num(2)]}
OtherItem == [kind |-> "other", status |-> NoStatus, duration |-> Absent]
ListItems == DictItems \cup ObjectItems \cup {OtherItem}

\* An element of the array of a JSON file: an object or any other value.
JsonItems ==
    [dict : {TRUE}, status : {"PASSED", "FAILED"}, duration : {Num(2)}]
    \cup {[dict |-> TRUE, status |-> NoStatus, duration |-> Absent],
          [dict |-> TRUE, status |-> "PASSED", duration |-> Str("abc")],
          [dict |-> TRUE, status |-> "PASSED", duration |-> NoneVal],
          [dict |-> FALSE, status |-> NoStatus, duration |-> Absent]}

\* A row of a CSV file: the status cell, the duration cell (None when the
\* row is shorter than the header) and whether the row has more cells than
\* the header.
CsvRows ==
    [status : {"PASSED", "FAILED"}, duration : {Str("2")}, extra : {FALSE}]
    \cup {[status |-> "PASSED", duration |-> Str("abc"), extra |-> FALSE],
          [status |-> "PASSED", duration |-> NoneVal, extra |-> FALSE],
          [status |-> "FAILED", duration |-> Str("2"), extra |-> TRUE]}

\* A testcase element of a JUnit XML file: its time attribute and children.
XmlCases ==
    [time : {Str("2")}, failure : BOOLEAN, error : BOOLEAN, skipped : BOOLEAN]
    \cup {[time |-> Absent, failure |-> FALSE, error |-> FALSE, skipped |-> FALSE],
          [time |-> Str("abc"), failure |-> FALSE, error |-> FALSE, skipped |-> FALSE]}

MissingFile ==
    [kind |-> "missing", path |-> "gone.json", wellformed |-> TRUE,
     hasDuration |-> FALSE, items |-> <<>>]
UnsupportedFile ==
    [kind |-> "other", path |-> "results.txt", wellformed |-> TRUE,
     hasDuration |-> FALSE, items |-> <<>>]
JsonFiles(n) ==
    [kind : {"json"}, path : {"results.json"}, wellformed : {TRUE},
     hasDuration : {FALSE}, items : [1..n -> JsonItems]]
CsvFiles(n) ==
    [kind : {"csv"}, path : {"results.csv"}, wellformed : {TRUE},
     hasDuration : BOOLEAN, items : [1..n -> CsvRows]]
XmlFiles(n) ==
    [kind : {"xml"}, path : {"results.xml"}, wellformed : {TRUE},
     hasDuration : {FALSE}, items : [1..n -> XmlCases]]
\* A file whose text is not JSON / not XML at all.
BrokenFiles ==
    [kind : {"json", "xml"}, path : {"broken"}, wellformed : {FALSE},
     hasDuration : {FALSE}, items : {<<>>}]
\* The files with n records.
Files(n) ==
    JsonFiles(n) \cup CsvFiles(n) \cup XmlFiles(n)
    \cup (IF n = 0 THEN {MissingFile, UnsupportedFile} \cup BrokenFiles ELSE {})

(***************************************************************************)
(* TestAggregator: loading                                                 *)
(***************************************************************************)
\* The outcome of a call: the record list it leaves and whether it raised.
Done(rs) == [results |-> rs, raised |-> FALSE]
Raise(rs) == [results |-> rs, raised |-> TRUE]

\* add_results(list): the elements are appended one by one; an element that
\* is neither a dict nor a TestResult raises ValueError at its position.
RECURSIVE add_list(_, _)
add_list(rs, items) ==
    IF items = <<>> THEN Done(rs)
    ELSE LET item == Head(items) IN
         IF item.kind \in {"dict", "TestResult"}
         THEN add_list(Append(rs, TestResult(item)), Tail(items))
         ELSE Raise(rs)

\* _load_from_json: every element of the array goes through from_dict inside
\* try/except; cls(**data) raises TypeError for an element that is no object.
RECURSIVE load_from_json(_, _)
load_from_json(rs, items) ==
    IF items = <<>> THEN Done(rs)
    ELSE LET item == Head(items) IN
         IF item.dict
         THEN load_from_json(Append(rs, TestResult(item)), Tail(items))
         ELSE load_from_json(rs, Tail(items))

\* _load_from_csv: when the header has a duration column the cell is
\* converted with float(), 0.0 on ValueError/TypeError; a row with more cells
\* than the header carries the key None and cls(**row) raises TypeError,
\* which is caught and the row dropped.
csv_row(hasDuration, row) ==
    [key \in DOMAIN row \ {"extra"} |->
        IF key = "duration"
        THEN (IF hasDuration
              THEN (IF float(row.duration).ok THEN float(row.duration).v ELSE Num(0))
              ELSE Absent)
        ELSE row[key]]

RECURSIVE load_from_csv(_, _, _)
load_from_csv(rs, hasDuration, rows) ==
    IF rows = <<>> THEN Done(rs)
    ELSE LET row == Head(rows) IN
         IF row.extra
         THEN load_from_csv(rs, hasDuration, Tail(rows))
         ELSE load_from_csv(Append(rs, TestResult(csv_row(hasDuration, row))),
                            hasDuration, Tail(rows))

\* xml_status with the first marker winning: skipped is consulted only when
\* neither failure nor error is present.
xml_status_first_match(tc) ==
    IF tc.failure THEN "FAILED"
    ELSE IF tc.error THEN "ERROR"
    ELSE IF tc.skipped THEN "SKIPPED" ELSE "PASSED"

\* The status of a testcase: failure, else error; then skipped overwrites.
xml_status(tc) ==
    LET first == IF tc.failure THEN "FAILED"
                 ELSE IF tc.error THEN "ERROR" ELSE "PASSED"
    IN IF tc.skipped THEN "SKIPPED" ELSE first

\* _load_from_xml: float(testcase.get('time', 0)) is evaluated outside the
\* inner try, so a time that is no number ends the loop and the outer
\* handler re-raises ValueError; the records before it stay appended.
xml_time(tc) == IF tc.time.k = "absent" THEN float(Num(0)) ELSE float(tc.time)

RECURSIVE load_from_xml(_, _)
load_from_xml(rs, cases) ==
    IF cases = <<>> THEN Done(rs)
    ELSE LET tc == Head(cases) IN
         IF xml_time(tc).ok
         THEN load_from_xml(
                  Append(rs, TestResult([status |-> xml_status(tc),
                                         duration |-> xml_time(tc).v])),
                  Tail(cases))
         ELSE Raise(rs)

\* _load_from_file: the existence check, then the path is recorded, then
\* the loader is chosen by the suffix.
load_from_file(rs, sf, f) ==
    IF f.kind = "missing" THEN [results |-> rs, source_files |-> sf, raised |-> TRUE]
    ELSE LET out ==
                 CASE f.kind = "json" ->
                        IF f.wellformed THEN load_from_json(rs, f.items) ELSE Raise(rs)
                   [] f.kind = "csv" -> load_from_csv(rs, f.hasDuration, f.items)
                   [] f.kind = "xml" ->
                        IF f.wellformed THEN load_from_xml(rs, f.items) ELSE Raise(rs)
                   [] OTHER -> Raise(rs)
         IN [results |-> out.results, source_files |-> Append(sf, f.path),
             raised |-> out.raised]

(***************************************************************************)
(* TestAggregator: summary                                                 *)
(***************************************************************************)
Durations(rs) == [i \in DOMAIN rs |-> rs[i].duration.n]

\* Time is counted in minutes; minute 0 is a Monday, 00:00.
MinutesPerHour == 60
MinutesPerDay == 1440
DaysPerWeek == 7
RecentHours == 24

\* datetime.fromisoformat(timestamp.replace('Z', '+00:00')): a value that is
\* no string has no replace (AttributeError), a text that is no ISO time
\* raises ValueError, a text with an offset gives an aware datetime.
parse_timestamp(ts) ==
    CASE ts.k = "iso"  -> [exc |-> "", aware |-> FALSE, t |-> ts.t]
      [] ts.k = "isoZ" -> [exc |-> "", aware |-> TRUE, t |-> ts.t]
      [] ts.k = "text" -> [exc |-> "ValueError", aware |-> FALSE, t |-> 0]
      [] OTHER         -> [exc |-> "AttributeError", aware |-> FALSE, t |-> 0]

\* The body of the loop of _get_recent_results for one record, at time t:
\* ValueError and TypeError include the record; comparing an aware datetime
\* with the naive cutoff raises TypeError.
is_recent(r, t) ==
    LET p == parse_timestamp(r.timestamp) IN
    CASE p.exc = "ValueError" -> TRUE
      [] p.aware -> TRUE
      [] OTHER -> p.t >= t - RecentHours * MinutesPerHour

\* _get_recent_results(hours=24) at time t; AttributeError is not caught.
get_recent_results(rs, t) ==
    IF \E i \in DOMAIN rs : parse_timestamp(rs[i].timestamp).exc = "AttributeError"
    THEN Raise(<<>>)
    ELSE LET Recent(r) == is_recent(r, t) IN Done(SelectSeq(rs, Recent))

\* Counter(values): the count of every value that occurs.
Counter(vals) ==
    [v \in {vals[i] : i \in DOMAIN vals} |->
        Cardinality({i \in DOMAIN vals : vals[i] = v})]

\* _calculate_trends
calculate_trends(recent) ==
    IF recent = <<>>
    THEN [trend |-> "no_data", total_recent |-> 0, pass_rate_recent |-> Rat(0, 1),
          recent_status_breakdown |-> <<>>]
    ELSE [trend |-> "",
          total_recent |-> Len(recent),
          pass_rate_recent |-> Rat(Count(recent, "PASSED") * 100, Len(recent)),
          recent_status_breakdown |->
              Counter([i \in DOMAIN recent |-> recent[i].status])]

\* get_summary: the empty summary for no records; otherwise the counts of
\* the four statuses, the sum of the durations (sum() raises TypeError on a
\* duration that is not a number), the rates, the breakdowns, the recent
\* trends (AttributeError on a timestamp that is no string) and the time of
\* the call.
get_summary(rs) ==
    IF rs = <<>>
    THEN [raised |-> FALSE, total |-> 0, passed |-> 0, failed |-> 0, skipped |-> 0,
          errors |-> 0, pass_rate |-> Rat(0, 1), total_duration |-> 0,
          avg_duration |-> Rat(0, 1)]
    ELSE IF \/ \E i \in DOMAIN rs : rs[i].duration.k # "num"
            \/ get_recent_results(rs, now).raised
    THEN [raised |-> TRUE, total |-> 0, passed |-> 0, failed |-> 0, skipped |-> 0,
          errors |-> 0, pass_rate |-> Rat(0, 1), total_duration |-> 0,
          avg_duration |-> Rat(0, 1)]
    ELSE [raised |-> FALSE,
          total |-> Len(rs),
          passed |-> Count(rs, "PASSED"),
          failed |-> Count(rs, "FAILED"),
          skipped |-> Count(rs, "SKIPPED"),
          errors |-> Count(rs, "ERROR"),
          pass_rate |-> Rat(Count(rs, "PASSED") * 100, Len(rs)),
          total_duration |-> SeqSum(Durations(rs)),
          avg_duration |-> Rat(SeqSum(Durations(rs)), Len(rs)),
          suite_breakdown |-> Counter([i \in DOMAIN rs |-> rs[i].suite]),
          category_breakdown |-> Counter([i \in DOMAIN rs |-> rs[i].category]),
          status_breakdown |-> Counter([i \in DOMAIN rs |-> rs[i].status]),
          recent_trends |-> calculate_trends(get_recent_results(rs, now).results),
          source_files |-> source_files,
          last_updated |-> now]

(***************************************************************************)
(* TestAggregator: operations                                              *)
(***************************************************************************)
NoInput == MissingFile

AggInit ==
    /\ results = <<>>
    /\ source_files = <<>>
    /\ last = [op |-> "init", raised |-> FALSE, pre |-> <<>>, file |-> NoInput]

\* add_results(results) with a list.
AddResultsList ==
    \E n \in 0..Min(MaxBatch, MaxResults - Len(results)) :
      \E items \in [1..n -> ListItems] :
        /\ LET out == add_list(results, items) IN
           /\ results' = out.results
           /\ last' = [op |-> "add_list", raised |-> out.raised, pre |-> results,
                       file |-> NoInput]
        /\ UNCHANGED source_files

\* add_results(results) with a file path.
AddResultsFile ==
    \E n \in 0..Min(MaxFileLen, MaxResults - Len(results)) :
      \E f \in Files(n) :
        /\ Len(source_files) < MaxSources
        /\ LET out == load_from_file(results, source_files, f) IN
           /\ results' = out.results
           /\ source_files' = out.source_files
           /\ last' = [op |-> "add_file", raised |-> out.raised, pre |-> results,
                       file |-> f]

\* clear_results()
ClearResults ==
    /\ results' = <<>>
    /\ source_files' = <<>>
    /\ last' = [op |-> "clear", raised |-> FALSE, pre |-> <<>>, file |-> NoInput]

(***************************************************************************)
(* TestAggregator: queries                                                 *)
(***************************************************************************)
NoQuery == [op |-> "none"]
QueryInit == query = NoQuery

\* str.upper() and str.lower() on the texts used as arguments.
Upper(s) == CASE s = "passed" -> "PASSED" [] s = "failed" -> "FAILED" [] OTHER -> s
Lower(s) == CASE s = "UI" -> "ui" [] OTHER -> s

\* Comparing two durations raises TypeError when their types differ or when
\* both are None; a sort of two or more records compares every record with
\* another one.
sort_raises(rs) ==
    /\ Len(rs) >= 2
    /\ \E i, j \in DOMAIN rs :
           \/ rs[i].duration.k # rs[j].duration.k
           \/ rs[i].duration.k = "none"

\* The sort key of a record whose duration compares with the others (all
\* numbers, or all the same text).
DurationKey(r) == IF r.duration.k = "num" THEN r.duration.n ELSE 0

\* sorted(results, key=duration, reverse=True): a stable sort, records of
\* equal duration keep their order.
RECURSIVE insert_descending(_, _)
insert_descending(sorted, r) ==
    IF sorted = <<>> THEN <<r>>
    ELSE IF DurationKey(Head(sorted)) >= DurationKey(r)
    THEN <<Head(sorted)>> \o insert_descending(Tail(sorted), r)
    ELSE <<r>> \o sorted

RECURSIVE sorted_descending(_)
sorted_descending(rs) ==
    IF rs = <<>> THEN <<>>
    ELSE insert_descending(sorted_descending(SubSeq(rs, 1, Len(rs) - 1)), rs[Len(rs)])

\* get_slowest_tests with the held list sorted in place.
get_slowest_tests_in_place(rs, limit) ==
    IF sort_raises(rs) THEN [results |-> rs, raised |-> TRUE, out |-> <<>>]
    ELSE [results |-> sorted_descending(rs), raised |-> FALSE,
          out |-> SubSeq(sorted_descending(rs), 1, Min(limit, Len(rs)))]

\* get_slowest_tests(limit), limit >= 0: the held list as the call leaves
\* it, and the list returned.
get_slowest_tests(rs, limit) ==
    IF sort_raises(rs) THEN [results |-> rs, raised |-> TRUE, out |-> <<>>]
    ELSE [results |-> rs, raised |-> FALSE,
          out |-> SubSeq(sorted_descending(rs), 1, Min(limit, Len(rs)))]

\* durations.sort(): ascending.
RECURSIVE insert_ascending(_, _)
insert_ascending(sorted, d) ==
    IF sorted = <<>> THEN <<d>>
    ELSE IF Head(sorted) <= d
    THEN <<Head(sorted)>> \o insert_ascending(Tail(sorted), d)
    ELSE <<d>> \o sorted

RECURSIVE sorted_ascending(_)
sorted_ascending(ds) ==
    IF ds = <<>> THEN <<>>
    ELSE insert_ascending(sorted_ascending(Tail(ds)), Head(ds))

\* get_test_duration_stats: the sort raises as above and sum() raises on
\* any duration that is no number; the median is durations[len // 2].
get_test_duration_stats(rs) ==
    IF rs = <<>>
    THEN [raised |-> FALSE, min |-> 0, max |-> 0, avg |-> Rat(0, 1), median |-> 0,
          total |-> 0]
    ELSE IF \E i \in DOMAIN rs : rs[i].duration.k # "num"
    THEN [raised |-> TRUE, min |-> 0, max |-> 0, avg |-> Rat(0, 1), median |-> 0,
          total |-> 0]
    ELSE LET durations == sorted_ascending(Durations(rs)) IN
         [raised |-> FALSE,
          min |-> durations[1],
          max |-> durations[Len(durations)],
          avg |-> Rat(SeqSum(durations), Len(durations)),
          median |-> durations[(Len(durations) \div 2) + 1],
          total |-> SeqSum(durations)]

\* get_tests_by_status / get_tests_by_suite / get_tests_by_category /
\* get_failed_tests
get_tests_by_status(rs, status) ==
    LET Match(r) == Upper(r.status) = Upper(status) IN SelectSeq(rs, Match)
get_tests_by_suite(rs, suite) ==
    LET Match(r) == Lower(r.suite.s) = Lower(suite) IN SelectSeq(rs, Match)
get_tests_by_category(rs, category) ==
    LET Match(r) == Lower(r.category.s) = Lower(category) IN SelectSeq(rs, Match)
get_failed_tests(rs) ==
    LET Match(r) == r.status \in {"FAILED", "ERROR"} IN SelectSeq(rs, Match)

\* The key of the period a time falls in, as the minute the period starts:
\* strftime('%Y-%m-%d %H:00'), strftime('%Y-%m-%d'), and for 'weekly' the
\* date of result_time - timedelta(days=result_time.weekday()).
weekday(t) == (t \div MinutesPerDay) % DaysPerWeek
period_key(period, t) ==
    CASE period = "hourly" -> t - (t % MinutesPerHour)
      [] period = "weekly" ->
            LET monday == t - weekday(t) * MinutesPerDay
            IN monday - (monday % MinutesPerDay)
      [] OTHER -> t - (t % MinutesPerDay)

\* sorted(period_data.keys())
RECURSIVE sorted_keys(_)
sorted_keys(keys) ==
    IF keys = {} THEN <<>>
    ELSE LET least == CHOOSE k \in keys : \A other \in keys : k <= other
         IN <<least>> \o sorted_keys(keys \ {least})

\* get_trends_over_time(period): {} for no records; a timestamp that is no
\* string raises AttributeError, one that is no ISO time is skipped.
get_trends_over_time(rs, period) ==
    IF rs = <<>> THEN [raised |-> FALSE, empty |-> TRUE, trends |-> <<>>]
    ELSE IF \E i \in DOMAIN rs : parse_timestamp(rs[i].timestamp).exc = "AttributeError"
    THEN [raised |-> TRUE, empty |-> FALSE, trends |-> <<>>]
    ELSE LET parsed == {i \in DOMAIN rs : parse_timestamp(rs[i].timestamp).exc = ""}
             key(i) == period_key(period, parse_timestamp(rs[i].timestamp).t)
             keys == sorted_keys({key(i) : i \in parsed})
             in_period(k, st) ==
                 Cardinality({i \in parsed : key(i) = k /\ rs[i].status = st})
             total(k) == Cardinality({i \in parsed : key(i) = k})
             trends == [n \in DOMAIN keys |->
                           [period |-> keys[n],
                            total |-> total(keys[n]),
                            passed |-> in_period(keys[n], "PASSED"),
                            failed |-> in_period(keys[n], "FAILED"),
                            skipped |-> in_period(keys[n], "SKIPPED"),
                            pass_rate |-> Rat(in_period(keys[n], "PASSED") * 100,
                                              total(keys[n]))]]
         IN [raised |-> FALSE, empty |-> FALSE, period |-> period, trends |-> trends,
             periods_analyzed |-> Len(trends),
             total_executions |-> SeqSum([n \in DOMAIN trends |-> trends[n].total])]

\* json.dump and json.load of one value: a number, a string or null.
json_dump(v) ==
    CASE v.k = "num" -> [json |-> "number", n |-> v.n, s |-> ""]
      [] v.k = "str" -> [json |-> "string", n |-> 0, s |-> v.s]
      [] OTHER -> [json |-> "null", n |-> 0, s |-> ""]
json_load(x) ==
    CASE x.json = "number" -> Num(x.n)
      [] x.json = "string" -> Str(x.s)
      [] OTHER -> NoneVal

\* TestResult.to_dict written by json.dump, and the object json.load
\* gives back for it.
to_json(r) ==
    [id |-> json_dump(r.id), name |-> json_dump(r.name), suite |-> json_dump(r.suite),
     category |-> json_dump(r.category), status |-> json_dump(Str(r.status)),
     duration |-> json_dump(r.duration), timestamp |-> r.timestamp]
from_json(x) ==
    [dict |-> TRUE, id |-> json_load(x.id), name |-> json_load(x.name),
     suite |-> json_load(x.suite), category |-> json_load(x.category),
     status |-> json_load(x.status).s, duration |-> json_load(x.duration),
     timestamp |-> x.timestamp]

\* export_consolidated_results: get_summary() is evaluated before the file
\* is opened; the file holds metadata, summary and test_results.
ExportPath == "consolidated.json"
export_consolidated_results(rs) ==
    IF get_summary(rs).raised THEN [raised |-> TRUE, written |-> FALSE, data |-> <<>>]
    ELSE [raised |-> FALSE, written |-> TRUE,
          data |-> [metadata |-> [aggregation_timestamp |-> now,
                                  total_results |-> Len(rs),
                                  source_files |-> source_files],
                    summary |-> get_summary(rs),
                    test_results |-> [i \in DOMAIN rs |-> to_json(rs[i])]]]

\* _load_from_json, the choice of the list of records in the loaded data:
\* data['test_results'], else data['results'], else data['tests'], else the
\* object itself as a single record.
results_list(data) ==
    IF "test_results" \in DOMAIN data THEN data.test_results
    ELSE IF "results" \in DOMAIN data THEN data.results
    ELSE IF "tests" \in DOMAIN data THEN data.tests
    ELSE <<data>>

\* The exported file as add_results(path) reads it.
exported_file(data) ==
    [kind |-> "json", path |-> ExportPath, wellformed |-> TRUE, hasDuration |-> FALSE,
     items |-> [i \in DOMAIN results_list(data) |-> from_json(results_list(data)[i])]]

\* The dicts given to add_results before the queries: id, status, duration
\* and timestamp.  With the clock starting at minute 0, a record of minute
\* -1420 is within the last 24 hours at first and older after 30 minutes.
TimedDict(id, status, duration, timestamp) ==
    [kind |-> "dict", id |-> Str(id), status |-> status, duration |-> duration,
     timestamp |-> timestamp]
TimedDicts ==
    { TimedDict("a", "PASSED", Num(1), Iso(-1420)),
      TimedDict("b", "FAILED", Num(2), Iso(-1430)),
      TimedDict("c", "passed", Num(2), Iso(-3000)),
      TimedDict("d", "PASSED", Num(1), Iso(0)),
      TimedDict("e", "SKIPPED", Num(2), BadTime),
      TimedDict("f", "PASSED", Num(1), NoTimestamp),
      TimedDict("g", "PASSED", Num(1), IsoZ(-3000)),
      TimedDict("h", "PASSED", Str("abc"), Iso(-1000)),
      [kind |-> "dict", id |-> Str("i"), status |-> "ERROR", duration |-> Num(1)] }

StatusArgs == {"PASSED", "failed"}
SuiteArgs == {"", "UI"}
Periods == {"hourly", "daily", "weekly", "monthly"}

\* add_results([d])
AddResultsDict ==
    \E d \in TimedDicts :
        /\ Len(results) < MaxResults
        /\ LET out == add_list(results, <<d>>) IN
           /\ results' = out.results
           /\ last' = [op |-> "add_list", raised |-> out.raised, pre |-> results,
                       file |-> NoInput]
        /\ query' = NoQuery
        /\ UNCHANGED source_files

\* A query returns: its name, its argument, its outcome and the time of
\* the call.
Answer(op, arg, out) ==
    /\ query' = [op |-> op, arg |-> arg, out |-> out, at |-> now]
    /\ UNCHANGED <<source_files, last>>

GetSummary == Answer("get_summary", "", get_summary(results)) /\ UNCHANGED results

GetTestsByStatus ==
    \E status \in StatusArgs :
        Answer("get_tests_by_status", status, get_tests_by_status(results, status))
        /\ UNCHANGED results

GetTestsBySuite ==
    \E suite \in SuiteArgs :
        Answer("get_tests_by_suite", suite, get_tests_by_suite(results, suite))
        /\ UNCHANGED results

GetTestsByCategory ==
    \E category \in SuiteArgs :
        Answer("get_tests_by_category", category, get_tests_by_category(results, category))
        /\ UNCHANGED results

GetFailedTests == Answer("get_failed_tests", "", get_failed_tests(results)) /\ UNCHANGED results

GetSlowestTests ==
    \E limit \in 0..(MaxResults + 1) :
        /\ Answer("get_slowest_tests", limit, get_slowest_tests(results, limit))
        /\ results' = get_slowest_tests(results, limit).results

GetTestDurationStats ==
    Answer("get_test_duration_stats", "", get_test_duration_stats(results))
    /\ UNCHANGED results

GetTrendsOverTime ==
    \E period \in Periods :
        Answer("get_trends_over_time", period, get_trends_over_time(results, period))
        /\ UNCHANGED results

ExportConsolidatedResults ==
    Answer("export_consolidated_results", ExportPath, export_consolidated_results(results))
    /\ UNCHANGED results

(***************************************************************************)
(* HTMLReportGenerator.export_to_csv and the way back through add_results  *)
(***************************************************************************)
\* The dicts handed to export_to_csv: all with the keys name, status and
\* duration.
CsvDicts ==
    [name : {Str("a"), Str("b"), Str("a\rb")}, status : {"PASSED", "FAILED"},
     duration : {Num(1), Num(2)}]

\* str(value), as csv.DictWriter writes a cell; None is written as ''.
str(v) ==
    CASE v.k = "str" -> v.s
      [] v.k = "num" -> (CASE v.n = 0 -> "0" [] v.n = 1 -> "1" [] v.n = 2 -> "2"
                           [] OTHER -> "?")
      [] OTHER -> ""

\* Reading a file opened without newline='': a carriage return inside a
\* quoted cell arrives as a line feed.
universal_newlines(text) == CASE text = "a\rb" -> "a\nb" [] OTHER -> text

\* export_to_csv(test_results): the header is the keys of the first dict,
\* every dict is written as one row of cells; nothing is written for an
\* empty list.
CsvPath == "test_results.csv"
export_to_csv(test_results) ==
    IF test_results = <<>>
    THEN [kind |-> "csv", path |-> CsvPath, wellformed |-> TRUE, hasDuration |-> FALSE,
          items |-> <<>>]
    ELSE [kind |-> "csv", path |-> CsvPath, wellformed |-> TRUE,
          hasDuration |-> "duration" \in DOMAIN test_results[1],
          items |-> [i \in DOMAIN test_results |->
                       [key \in DOMAIN test_results[1] \cup {"extra"} |->
                           CASE key = "extra" -> FALSE
                             [] key = "status" -> test_results[i].status
                             [] OTHER -> Str(str(test_results[i][key]))]]]

\* The rows csv.DictReader gives for a written file.
DictReader(file) ==
    [kind |-> file.kind, path |-> file.path, wellformed |-> file.wellformed,
     hasDuration |-> file.hasDuration,
     items |-> [i \in DOMAIN file.items |->
                  [key \in DOMAIN file.items[i] |->
                      IF key \in {"extra", "status"} THEN file.items[i][key]
                      ELSE Str(universal_newlines(file.items[i][key].s))]]]

\* export_to_csv(test_results), for a fresh aggregator to load.
ExportToCsv ==
    \E n \in 0..MaxBatch :
      \E test_results \in [1..n -> CsvDicts] :
        /\ results = <<>> /\ source_files = <<>>
        /\ query' = [op |-> "export_to_csv", arg |-> test_results,
                     out |-> export_to_csv(test_results), at |-> now]
        /\ UNCHANGED <<results, source_files, last>>

\* add_results(path) with the file export_to_csv wrote.
AddResultsCsvExport ==
    /\ query.op = "export_to_csv"
    /\ Len(source_files) < MaxSources
    /\ LET f == DictReader(query.out)
           out == load_from_file(results, source_files, f) IN
       /\ results' = out.results
       /\ source_files' = out.source_files
       /\ last' = [op |-> "add_file", raised |-> out.raised, pre |-> results,
                   file |-> f]
    /\ UNCHANGED query

(***************************************************************************)
(* NotificationSystem: rules and inputs                                    *)
(***************************************************************************)
MaxRules == 4      \* the three default rules and one added rule
MaxTests == 2      \* most test results in one notification call
MaxTime == 60      \* the clock stops here (minutes)
TickSteps == {30}

NoError == "<None>"
NoTime == -1

Cond(name, n, d) == [name |-> name, threshold |-> Rat(n, d)]

Rule(name, channel, priority, conditions, template, enabled, limit) ==
    [name |-> name, channel |-> channel, priority_threshold |-> priority,
     trigger_conditions |-> conditions, template |-> template,
     enabled |-> enabled, rate_limit_minutes |-> limit]

\* _load_default_config
default_rules ==
    << Rule("Critical Failures", "email", "high",
            {Cond("failure_rate_threshold", 1, 10), Cond("min_failures", 1, 1)},
            "failure_alert", TRUE, 60),
       Rule("Success Notification", "console", "low",
            {Cond("pass_rate_threshold", 100, 1)},
            "success_notification", TRUE, 60),
       Rule("Performance Issues", "console", "medium",
            {Cond("slow_test_threshold", 30, 1), Cond("min_slow_tests", 1, 1)},
            "performance_alert", TRUE, 60) >>

\* Rules a caller adds with add_rule.
AddedRules ==
    { Rule("Min Failures", "console", "low", {Cond("min_failures", 3, 1)},
           "test_summary", TRUE, 30),
      Rule("Success Notification", "webhook", "medium",
           {Cond("max_failures", 0, 1), Cond("failed", 5, 1)},
           "{total_tests} tests", TRUE, 0),
      Rule("Positional", "console", "low", {}, "{0}", TRUE, 30),
      Rule("Disabled", "console", "low", {}, "test_summary", FALSE, 0) }

RuleNames ==
    {default_rules[i].name : i \in DOMAIN default_rules} \cup {r.name : r \in AddedRules}

\* The test result lists handed to the notifier: p PASSED, f FAILED and
\* s SKIPPED dicts of one second each, and possibly a last dict whose
\* duration is a text.
Repeat(x, n) == [i \in 1..n |-> x]
TestDict(status, duration) == [status |-> status, duration |-> duration]
TestLists ==
    {Repeat(TestDict("PASSED", Num(1)), c[1]) \o Repeat(TestDict("FAILED", Num(1)), c[2])
       \o Repeat(TestDict("SKIPPED", Num(1)), c[3])
       \o Repeat(TestDict("PASSED", Str("abc")), c[4]) :
     c \in {d \in (0..MaxTests) \X (0..MaxTests) \X (0..MaxTests) \X (0..1) :
              d[1] + d[2] + d[3] + d[4] <= MaxTests}}

Configs == {{}, {"webhook"}}

(***************************************************************************)
(* NotificationSystem: evaluation                                          *)
(***************************************************************************)
CountDicts(ts, st) == Cardinality({i \in DOMAIN ts : ts[i].status = st})

\* _calculate_summary; sum() raises TypeError on a duration that is no number.
\* failed_tests and slow_tests are represented by their lengths.
calculate_summary(ts) ==
    IF \E i \in DOMAIN ts : ts[i].duration.k # "num"
    THEN [raised |-> TRUE, total |-> 0, passed |-> 0, failed |-> 0, skipped |-> 0,
          pass_rate |-> Rat(0, 1), total_duration |-> 0, failure_rate |-> Rat(0, 1),
          failed_tests |-> 0, slow_tests |-> 0]
    ELSE [raised |-> FALSE,
          total |-> Len(ts),
          passed |-> CountDicts(ts, "PASSED"),
          failed |-> CountDicts(ts, "FAILED"),
          skipped |-> CountDicts(ts, "SKIPPED"),
          pass_rate |-> IF Len(ts) > 0 THEN Rat(CountDicts(ts, "PASSED") * 100, Len(ts))
                        ELSE Rat(0, 1),
          total_duration |-> SeqSum([i \in DOMAIN ts |-> ts[i].duration.n]),
          failure_rate |-> IF Len(ts) > 0 THEN Rat(CountDicts(ts, "FAILED") * 100, Len(ts))
                           ELSE Rat(0, 1),
          failed_tests |-> CountDicts(ts, "FAILED"),
          slow_tests |-> Cardinality({i \in DOMAIN ts : ts[i].duration.n > 20})]

NoSummary == calculate_summary(<<>>)

\* _priority_exceeds_threshold with the cutoffs themselves included.
priority_exceeds_threshold_inclusive(summary, threshold) ==
    LET fr == summary.failure_rate
        pr == summary.pass_rate
        Ge(a, n) == RatLe(Rat(n, 1), a)
        Le(a, n) == RatLe(a, Rat(n, 1))
    IN CASE threshold = "critical" -> Ge(fr, 30) \/ Le(pr, 50)
         [] threshold = "high" -> Ge(fr, 20) \/ Le(pr, 70)
         [] threshold = "medium" -> Ge(fr, 10) \/ Le(pr, 85)
         [] OTHER -> Ge(fr, 5) \/ Le(pr, 95)

\* _priority_exceeds_threshold
priority_exceeds_threshold(summary, threshold) ==
    LET fr == summary.failure_rate
        pr == summary.pass_rate
        Gt(a, n) == ~RatLe(a, Rat(n, 1))
        Lt(a, n) == ~RatLe(Rat(n, 1), a)
    IN CASE threshold = "critical" -> Gt(fr, 30) \/ Lt(pr, 50)
         [] threshold = "high" -> Gt(fr, 20) \/ Lt(pr, 70)
         [] threshold = "medium" -> Gt(fr, 10) \/ Lt(pr, 85)
         [] OTHER -> Gt(fr, 5) \/ Lt(pr, 95)

\* summary.get(condition): the numeric entries of the summary dict under
\* their own keys; any other key gives None.
SummaryKeys == {"total", "passed", "failed", "skipped", "pass_rate",
                "total_duration", "failure_rate"}
summary_get(summary, key) ==
    CASE key = "total" -> Rat(summary.total, 1)
      [] key = "passed" -> Rat(summary.passed, 1)
      [] key = "failed" -> Rat(summary.failed, 1)
      [] key = "skipped" -> Rat(summary.skipped, 1)
      [] key = "pass_rate" -> summary.pass_rate
      [] key = "total_duration" -> Rat(summary.total_duration, 1)
      [] key = "failure_rate" -> summary.failure_rate
      [] OTHER -> Rat(0, 1)

\* str.endswith('_threshold'), str.startswith('min_'), str.startswith('max_')
\* on the condition names in use.
EndsWithThreshold(name) ==
    name \in {"failure_rate_threshold", "pass_rate_threshold", "slow_test_threshold"}
StartsWithMin(name) == name \in {"min_failures", "min_slow_tests"}
StartsWithMax(name) == name \in {"max_failures"}

\* _check_trigger_conditions: a condition whose name is no key of the
\* summary is skipped; otherwise the comparison chosen by the name applies.
check_trigger_conditions(summary, conditions) ==
    \A c \in conditions :
        IF c.name \notin SummaryKeys THEN TRUE
        ELSE LET actual == summary_get(summary, c.name) IN
             CASE EndsWithThreshold(c.name) -> RatLe(c.threshold, actual)
               [] StartsWithMin(c.name) -> RatLe(c.threshold, actual)
               [] StartsWithMax(c.name) -> RatLe(actual, c.threshold)
               [] OTHER -> TRUE

\* _evaluate_rules: the indexes, in order, of the stored rules that are
\* enabled, meet their priority threshold and pass their conditions.
RECURSIVE evaluate_from(_, _, _)
evaluate_from(rs, summary, i) ==
    IF i > Len(rs) THEN <<>>
    ELSE IF /\ rs[i].enabled
            /\ priority_exceeds_threshold(summary, rs[i].priority_threshold)
            /\ check_trigger_conditions(summary, rs[i].trigger_conditions)
         THEN <<i>> \o evaluate_from(rs, summary, i + 1)
         ELSE evaluate_from(rs, summary, i + 1)
evaluate_rules(rs, summary) == evaluate_from(rs, summary, 1)

\* should_send_notification without the rate limit.
should_send_unlimited(rule, times, t) == TRUE

\* _should_send_notification: rate limiting on the rule name.
should_send_notification(rule, times, t) ==
    IF times[rule.name] # NoTime
    THEN ~(t - times[rule.name] < rule.rate_limit_minutes)
    ELSE TRUE

\* _generate_message raises only for a custom template whose format() fails
\* with something other than KeyError (a positional field).
generate_message_raises(template) == template = "{0}"

\* _generate_message: the text handed to the transport.  A named template
\* renders the summary; any other template name is itself the format string,
\* rendered with total_tests = summary.get('total', 0).
NamedTemplates ==
    {"test_summary", "failure_alert", "success_notification", "performance_alert"}
generate_message(template, summary) ==
    IF template \in NamedTemplates THEN <<template, summary.total, summary.failed>>
    ELSE IF template = "{total_tests} tests" THEN <<summary.total, " tests">>
    ELSE <<template>>

\* The (success, error) pairs a channel's _send_* method can return.
Sent == [success |-> TRUE, error |-> NoError]
Failed(e) == [success |-> FALSE, error |-> e]
transport(channel, cfg) ==
    CASE channel = "email" ->
           IF "email" \in cfg THEN {Sent, Failed("SMTPException")}
           ELSE {Failed("Email configuration incomplete")}
      [] channel = "slack" ->
           IF "slack" \in cfg THEN {Sent, Failed("ConnectionError")}
           ELSE {Failed("Slack webhook URL not configured")}
      [] channel = "teams" ->
           IF "teams" \in cfg THEN {Sent, Failed("ConnectionError")}
           ELSE {Failed("Teams webhook URL not configured")}
      [] channel = "webhook" ->
           IF "webhook" \in cfg THEN {Sent, Failed("ConnectionError")}
           ELSE {Failed("Webhook URL not configured")}
      [] channel = "console" -> {Sent}
      [] channel = "file" -> {Sent, Failed("OSError")}
      [] OTHER -> {Failed("Unknown channel")}

\* NotificationResult with the error detail of a failure left out.
NotificationResult_no_detail(idx, rule, out, t) ==
    [rule |-> idx, success |-> out.success, channel |-> rule.channel,
     message |-> IF out.success THEN "Notification sent successfully" ELSE out.error,
     timestamp |-> t,
     error_details |-> NoError]

\* _send_notification: the NotificationResult for one outcome of the
\* transport; an exception while generating the message gives a failure.
NotificationResult(idx, rule, out, t) ==
    [rule |-> idx, success |-> out.success, channel |-> rule.channel,
     message |-> IF out.success THEN "Notification sent successfully" ELSE out.error,
     timestamp |-> t,
     error_details |-> IF ~out.success THEN out.error ELSE NoError]
send_notification(idx, rule, cfg, t) ==
    IF generate_message_raises(rule.template)
    THEN {NotificationResult(idx, rule, Failed("IndexError"), t)}
    ELSE {NotificationResult(idx, rule, out, t) : out \in transport(rule.channel, cfg)}

(***************************************************************************)
(* NotificationSystem: operations                                          *)
(***************************************************************************)
NoBody == <<>>
Idle == [pc |-> "idle", summary |-> NoSummary, applicable |-> <<>>, i |-> 1,
         results |-> <<>>, custom_rules |-> <<>>, body |-> NoBody]

NotifyInit ==
    /\ rules = default_rules
    /\ last_notification_times = [n \in RuleNames |-> NoTime]
    /\ notification_history = <<>>
    /\ config = {}
    /\ now = 0
    /\ call = Idle

Returned == call.pc \in {"idle", "done", "raised"}

\* add_rule(rule)
AddRule ==
    \E r \in AddedRules :
        /\ Returned
        /\ Len(rules) < MaxRules
        /\ rules' = Append(rules, r)
        /\ UNCHANGED <<last_notification_times, notification_history, config, now, call>>

\* send_test_results_notification(test_results, custom_rules), up to the loop
\* over the applicable rules.  rules_to_evaluate is computed and read by
\* nothing: _evaluate_rules goes through self.rules.
send_test_results_notification(test_results, custom_rules) ==
    /\ Returned
    /\ LET summary == calculate_summary(test_results)
           rules_to_evaluate == IF custom_rules # <<>> THEN custom_rules ELSE rules IN
       call' = IF test_results = <<>> THEN [Idle EXCEPT !.pc = "done"]
               ELSE IF summary.raised THEN [Idle EXCEPT !.pc = "raised"]
               ELSE [pc |-> "loop", summary |-> summary,
                     applicable |-> evaluate_rules(rules, summary),
                     i |-> 1, results |-> <<>>, custom_rules |-> custom_rules,
                     body |-> NoBody]
    /\ UNCHANGED <<rules, last_notification_times, notification_history, config, now>>

\* send_test_results_notification(test_results)
SendBegin == \E ts \in TestLists : send_test_results_notification(ts, <<>>)

\* One iteration of the loop: the rate-limit check of the next applicable rule.
SendCheck ==
    /\ call.pc = "loop"
    /\ call.i <= Len(call.applicable)
    /\ call' = IF should_send_notification(rules[call.applicable[call.i]],
                                           last_notification_times, now)
               THEN [call EXCEPT !.pc = "send"]
               ELSE [call EXCEPT !.i = call.i + 1]
    /\ UNCHANGED <<rules, last_notification_times, notification_history, config, now>>

\* The delivery for the rule that passed the check, and the stamp on success.
SendDeliver ==
    /\ call.pc = "send"
    /\ LET idx == call.applicable[call.i]
           rule == rules[idx]
       IN \E result \in send_notification(idx, rule, config, now) :
            /\ call' = [call EXCEPT !.pc = "loop", !.i = call.i + 1,
                                    !.results = Append(call.results, result),
                                    !.body = IF generate_message_raises(rule.template)
                                             THEN call.body
                                             ELSE generate_message(rule.template,
                                                                   call.summary)]
            /\ last_notification_times' =
                   IF result.success
                   THEN [last_notification_times EXCEPT ![rule.name] = now]
                   ELSE last_notification_times
    /\ UNCHANGED <<rules, notification_history, config, now>>

\* The end of the loop: the call returns its results.
SendReturn ==
    /\ call.pc = "loop"
    /\ call.i > Len(call.applicable)
    /\ call' = [call EXCEPT !.pc = "done"]
    /\ UNCHANGED <<rules, last_notification_times, notification_history, config, now>>

\* Time passes: between calls, and while a call blocks in a delivery.
Tick ==
    \E d \in TickSteps :
        /\ Returned \/ call.pc = "send"
        /\ now + d <= MaxTime
        /\ now' = now + d
        /\ UNCHANGED <<rules, last_notification_times, notification_history, config, call>>


(***************************************************************************)
(* MetricsCalculator and AnalyticsEngine: what each public function        *)
(* returns, by shape: the dict {'error': text}, the dict {'message': text}, *)
(* a computed result, or an exception.                                     *)
(***************************************************************************)
MaxEngine == 2     \* most test results handed to an engine
MaxScoreTests == 21 \* most test results in a record set of chosen counts

EngineDicts ==
    [status : {"PASSED", "FAILED", "SKIPPED"}, duration : {Num(1)}, recent : BOOLEAN]
    \cup {[status |-> "PASSED", duration |-> Num(25), recent |-> TRUE]}

OutError(text) == [kind |-> "error", text |-> text]
OutMessage(text) == [kind |-> "message", text |-> text]
OutValue == [kind |-> "value", text |-> ""]
OutRaised(exc) == [kind |-> "raised", text |-> exc]

NoResults == "No test results available"

\* statistics.mean raises StatisticsError on no data.
mean(xs) ==
    IF xs = <<>> THEN [raised |-> TRUE, v |-> Rat(0, 1)]
    ELSE [raised |-> FALSE, v |-> Rat(SeqSum(xs), Len(xs))]

DictDurations(ts) == [i \in DOMAIN ts |-> ts[i].duration.n]

\* statistics.median of a non-empty list: the middle value of the sorted
\* data, or the mean of the two middle values.
median(xs) ==
    LET data == sorted_ascending(xs)
        n == Len(data) IN
    IF n % 2 = 1 THEN Rat(data[(n \div 2) + 1], 1)
    ELSE Rat(data[n \div 2] + data[(n \div 2) + 1], 2)

\* round(x, 2) of a rational x >= 0, in hundredths; a tie goes to the even
\* hundredth.
round2(x) ==
    LET q == (x.n * 100) \div x.d
        rest == (x.n * 100) % x.d
    IN IF 2 * rest > x.d THEN q + 1
       ELSE IF 2 * rest < x.d THEN q
       ELSE IF q % 2 = 0 THEN q ELSE q + 1
\* round(x, 2) where x is computed in floating point from rounded terms:
\* at a tie the float lies on either side, so either hundredth may result.
round2_float(x) ==
    IF 2 * ((x.n * 100) % x.d) = x.d
    THEN {(x.n * 100) \div x.d, ((x.n * 100) \div x.d) + 1}
    ELSE {round2(x)}
Max(a, b) == IF a > b THEN a ELSE b

CountDictsWith(ts, st) == Cardinality({i \in DOMAIN ts : ts[i].status = st})

\* statistics.stdev of the durations: 0 for fewer than two values (the
\* caller's guard) and for equal values, which is what the record sets
\* drawn here hold.
stdev(xs) == 0

\* _calculate_execution_efficiency(durations), in hundredths
calculate_execution_efficiency(durations) ==
    IF durations = <<>> THEN 0
    ELSE LET total == SeqSum(durations)
             n == Len(durations)
             \* duration_score = max(0, 100 - avg * 2), as a multiple of 1/n
             duration_score == Max(0, 100 * n - 2 * total)
             consistency_score == Max(0, 100 - stdev(durations) * 5)
         IN round2(Rat(duration_score + consistency_score * n, 2 * n))

\* _calculate_reliability_score: min(100, pass rate + 5)
calculate_reliability_score(ts) ==
    LET passed == CountDictsWith(ts, "PASSED")
        total == Len(ts)
    IN IF passed * 100 + 5 * total >= 100 * total THEN Rat(100, 1)
       ELSE Rat(passed * 100 + 5 * total, total)

\* _calculate_maintainability_score: statistics.mean of the lengths of the
\* non-empty names raises StatisticsError when there is none.
calculate_maintainability_score(ts) ==
    LET names == {i \in DOMAIN ts : Get(ts[i], "name", Str("")).s # ""}
        categories == {Get(ts[i], "category", Str("")) : i \in DOMAIN ts}
        suites == {Get(ts[i], "suite", Str("")) : i \in DOMAIN ts}
        organisation == (Cardinality(categories) + Cardinality(suites)) * 10
        org_score == IF organisation < 100 THEN organisation ELSE 100
        lengths == SeqSum([i \in DOMAIN ts |-> Len(Get(ts[i], "name", Str("")).s)])
        count == Cardinality(names)
        \* min(100, avg_name_length * 2), times count
        naming == IF 2 * lengths < 100 * count THEN 2 * lengths ELSE 100 * count
    IN [raised |-> names = {},
        v |-> IF names = {} THEN 0
              ELSE round2(Rat(org_score * count + naming, 2 * count))]

\* _calculate_effectiveness_score without the floor max(0, ...).
calculate_effectiveness_score_unfloored(ts) ==
    LET failed == CountDictsWith(ts, "FAILED")
        total == Len(ts)
    IN IF ts = <<>> THEN 0
       ELSE IF 20 * failed >= total /\ 20 * failed <= 3 * total THEN 10000
       ELSE IF 20 * failed < total THEN round2(Rat(70 * total + 600 * failed, total))
       ELSE IF 130 * total >= 200 * failed
       THEN round2(Rat(130 * total - 200 * failed, total))
       ELSE 0 - round2(Rat(200 * failed - 130 * total, total))

\* _calculate_effectiveness_score, in hundredths: 100 for a failure rate in
\* [0.05, 0.15], 70 + rate / 0.05 * 30 below, max(0, 100 - (rate - 0.15) *
\* 200) above, rounded to two decimals.
calculate_effectiveness_score(ts) ==
    LET failed == CountDictsWith(ts, "FAILED")
        total == Len(ts)
    IN IF ts = <<>> THEN 0
       ELSE IF 20 * failed >= total /\ 20 * failed <= 3 * total THEN 10000
       ELSE IF 20 * failed < total THEN round2(Rat(70 * total + 600 * failed, total))
       ELSE round2(Rat(Max(0, 130 * total - 200 * failed), total))

\* AnalyticsEngine._calculate_test_effectiveness: the same function, not
\* rounded, min(100, ...).
calculate_test_effectiveness(ts) ==
    LET failed == CountDictsWith(ts, "FAILED")
        total == Len(ts)
    IN IF ts = <<>> THEN Rat(0, 1)
       ELSE IF 20 * failed >= total /\ 20 * failed <= 3 * total THEN Rat(100, 1)
       ELSE IF 20 * failed < total THEN Rat(70 * total + 600 * failed, total)
       ELSE Rat(Max(0, 130 * total - 200 * failed), total)

\* _calculate_overall_coverage_score, in hundredths: the records drawn have
\* one category, one priority and one test type.
calculate_overall_coverage_score(ts) ==
    LET diversity_score == Min(100, (1 + 1 + 1) * 10)
        \* organization_score = min(100, total * 0.5), in halves
        organization_halves == Min(200, Len(ts))
    IN round2(Rat(2 * diversity_score + organization_halves, 4))

\* _calculate_overall_health_score(kpis), kpis in hundredths: the weights
\* 0.3, 0.25, 0.2, 0.15, 0.1; test_performance enters as max(0, 100 - value).
calculate_overall_health_score(kpis) ==
    LET weighted_sum == 30 * kpis.test_pass_rate + 25 * kpis.test_reliability
                        + 20 * Max(0, 10000 - kpis.test_performance)
                        + 15 * kpis.test_coverage + 10 * kpis.execution_efficiency
        total_weight == 30 + 25 + 20 + 15 + 10
    IN round2_float(Rat(weighted_sum, total_weight * 100))

\* MetricsCalculator: every calculate_* starts with the guard
\* "if not self.test_results: return {'error': ...}".
calculate_execution_metrics(ts) == IF ts = <<>> THEN OutError(NoResults) ELSE OutValue
\* calculate_quality_metrics: the three scores, each rounded to two decimals.
calculate_quality_metrics(ts) ==
    IF ts = <<>> THEN OutError(NoResults)
    ELSE IF calculate_maintainability_score(ts).raised THEN OutRaised("StatisticsError")
    ELSE [kind |-> "value", text |-> "",
          reliability_score |-> round2(calculate_reliability_score(ts)),
          maintainability_score |-> calculate_maintainability_score(ts).v,
          effectiveness_score |-> calculate_effectiveness_score(ts)]
calculate_performance_metrics(ts) == IF ts = <<>> THEN OutError(NoResults) ELSE OutValue
calculate_coverage_metrics(ts) == IF ts = <<>> THEN OutError(NoResults) ELSE OutValue
\* calculate_trend_metrics without its guard.
calculate_trend_metrics_unguarded(ts) == OutValue
calculate_trend_metrics(ts) == IF ts = <<>> THEN OutError(NoResults) ELSE OutValue
calculate_comparative_metrics(ts) == IF ts = <<>> THEN OutError(NoResults) ELSE OutValue
\* calculate_kpi_summary: the five KPIs (in hundredths) and their blend;
\* calculate_quality_metrics is evaluated on the way.  The results the
\* call may give.
calculate_kpi_summary(ts) ==
    IF ts = <<>> THEN {OutError(NoResults)}
    ELSE IF calculate_quality_metrics(ts).kind = "raised" THEN {calculate_quality_metrics(ts)}
    ELSE LET kpis ==
                 [test_pass_rate |-> round2(Rat(CountDictsWith(ts, "PASSED") * 100, Len(ts))),
                  test_reliability |-> calculate_quality_metrics(ts).reliability_score,
                  test_performance |-> round2(mean(DictDurations(ts)).v),
                  test_coverage |-> calculate_overall_coverage_score(ts),
                  execution_efficiency |->
                      calculate_execution_efficiency(DictDurations(ts))]
         IN {[kind |-> "value", text |-> "", kpis |-> kpis, overall_health_score |-> h] :
                h \in calculate_overall_health_score(kpis)}

\* AnalyticsEngine.analyze_performance: duration_stats of the durations;
\* statistics.mean raises TypeError on a duration that is no number.
analyze_performance(ts) ==
    IF ts = <<>> THEN OutError(NoResults)
    ELSE IF \E i \in DOMAIN ts : ts[i].duration.k # "num" THEN OutRaised("TypeError")
    ELSE [kind |-> "value", text |-> "", median |-> median(DictDurations(ts))]

\* AnalyticsEngine.analyze_failure_patterns: no guard on the input, the
\* FAILED results are filtered first.
analyze_failure_patterns(ts) ==
    IF {i \in DOMAIN ts : ts[i].status = "FAILED"} = {}
    THEN OutMessage("No failed tests to analyze")
    ELSE OutValue

\* AnalyticsEngine.analyze_test_quality
analyze_test_quality(ts) ==
    IF ts = <<>> THEN OutError(NoResults)
    ELSE [kind |-> "value", text |-> "",
          test_effectiveness |-> calculate_test_effectiveness(ts)]

\* AnalyticsEngine.analyze_trends with the default period '7d'.
analyze_trends(ts) ==
    IF ts = <<>> THEN OutError("No test results available for trend analysis")
    ELSE IF {i \in DOMAIN ts : ts[i].recent} = {}
    THEN OutMessage("No results in specified time period")
    ELSE OutValue

\* AnalyticsEngine._identify_optimization_opportunities takes
\* statistics.mean of the durations without a guard.
identify_optimization_opportunities(ts) == mean(DictDurations(ts))

\* AnalyticsEngine.generate_insights: no guard of its own; the helpers
\* before _identify_optimization_opportunities accept an empty list.
generate_insights(ts) ==
    IF identify_optimization_opportunities(ts).raised
    THEN OutRaised("StatisticsError")
    ELSE OutValue

MetricsFunctions ==
    {"calculate_execution_metrics", "calculate_quality_metrics",
     "calculate_performance_metrics", "calculate_coverage_metrics",
     "calculate_trend_metrics", "calculate_comparative_metrics",
     "calculate_kpi_summary"}
AnalyticsFunctions ==
    {"analyze_performance", "analyze_failure_patterns", "analyze_test_quality",
     "analyze_trends", "generate_insights"}

EngineInit == engine = [fn |-> "none", input |-> <<>>, out |-> OutValue]

\* A function is applied to the record set the engine was constructed with.
Evaluate(fn, out) ==
    engine' = [fn |-> fn, input |-> engine.input, out |-> out]

CalculateExecutionMetrics == Evaluate("calculate_execution_metrics", calculate_execution_metrics(engine.input))
CalculateQualityMetrics == Evaluate("calculate_quality_metrics", calculate_quality_metrics(engine.input))
CalculatePerformanceMetrics == Evaluate("calculate_performance_metrics", calculate_performance_metrics(engine.input))
CalculateCoverageMetrics == Evaluate("calculate_coverage_metrics", calculate_coverage_metrics(engine.input))
CalculateTrendMetrics == Evaluate("calculate_trend_metrics", calculate_trend_metrics(engine.input))
CalculateComparativeMetrics == Evaluate("calculate_comparative_metrics", calculate_comparative_metrics(engine.input))
CalculateKpiSummary ==
    \E out \in calculate_kpi_summary(engine.input) : Evaluate("calculate_kpi_summary", out)
AnalyzePerformance == Evaluate("analyze_performance", analyze_performance(engine.input))
AnalyzeFailurePatterns == Evaluate("analyze_failure_patterns", analyze_failure_patterns(engine.input))
AnalyzeTestQuality == Evaluate("analyze_test_quality", analyze_test_quality(engine.input))
AnalyzeTrends == Evaluate("analyze_trends", analyze_trends(engine.input))
GenerateInsights == Evaluate("generate_insights", generate_insights(engine.input))

\* The two effectiveness scores, called on their own.
OutScore(score) == [kind |-> "value", text |-> "", score |-> score]
CalculateEffectivenessScore ==
    Evaluate("_calculate_effectiveness_score",
             OutScore(Rat(calculate_effectiveness_score(engine.input), 100)))
CalculateTestEffectiveness ==
    Evaluate("_calculate_test_effectiveness",
             OutScore(calculate_test_effectiveness(engine.input)))

(***************************************************************************)
(* MockAIService: test generation from a user story                        *)
(***************************************************************************)
MaxStoryWords == 2  \* most words in a user story of any words

\* A user story is the sequence of its words as written; the text between
\* the words is whitespace.  The stories are all short ones of a few words,
\* one about an action without patterns and two that name a persona.
StoryWords == {"login", "Login", "logins", "search"}
Stories ==
    SeqsUpTo(StoryWords, MaxStoryWords)
    \cup {<<"create", "login">>,
          <<"As", "a", "user", "search", "login">>, <<"as", "an", "admin", "user">>}

\* random.uniform(0.7, 0.95), in hundredths
Confidences == {70, 95}

NoRun == [op |-> "none"]
GenInit == generated = NoRun

\* str.lower() and str.title() on the words and scenarios that occur
lower(w) == CASE w = "As" -> "as" [] w = "Login" -> "login" [] OTHER -> w
title(w) ==
    CASE w = "login" -> "Login"
      [] w = "search" -> "Search"
      [] w = "create" -> "Create"
      [] w = "general" -> "General"
      [] w = "valid credentials" -> "Valid Credentials"
      [] w = "remember me enabled" -> "Remember Me Enabled"
      [] w = "invalid username" -> "Invalid Username"
      [] w = "wrong password" -> "Wrong Password"
      [] w = "valid search term" -> "Valid Search Term"
      [] w = "results found" -> "Results Found"
      [] w = "no results" -> "No Results"
      [] w = "special characters" -> "Special Characters"
      [] w = "valid scenario" -> "Valid Scenario"
      [] w = "invalid scenario" -> "Invalid Scenario"
      [] OTHER -> w

test_patterns ==
    [login |-> [positive |-> <<"valid credentials", "remember me enabled", "correct captcha">>,
                negative |-> <<"invalid username", "wrong password", "empty fields",
                               "sql injection">>],
     api |-> [positive |-> <<"valid request", "correct parameters", "successful response">>,
              negative |-> <<"invalid parameters", "unauthorized access", "server error">>],
     ui |-> [positive |-> <<"valid form submission", "proper navigation", "correct display">>,
             negative |-> <<"invalid input", "broken links", "missing elements">>],
     search |-> [positive |-> <<"valid search term", "results found", "correct filtering">>,
                 negative |-> <<"no results", "special characters", "empty search">>]]

action_words ==
    <<"login", "register", "search", "create", "update", "delete", "view", "edit">>

\* seq[:n]
Take(seq, n) == SubSeq(seq, 1, IF n < Len(seq) THEN n ELSE Len(seq))

\* f'{prefix}_{n:03d}'
FormatId(prefix, n) == <<prefix, "_", (n \div 100) % 10, (n \div 10) % 10, n % 10>>

\* re.search('(?:As an?|As a?)\s+([^,]+)', user_story, re.IGNORECASE): the
\* words after the first "as a" / "as an", or the default
persona(story) ==
    LET starts == {i \in 1..(Len(story) - 2) :
                      lower(story[i]) = "as" /\ lower(story[i + 1]) \in {"a", "an"}} IN
    IF starts = {} THEN <<"Unknown User">>
    ELSE LET i == CHOOSE j \in starts : \A k \in starts : j <= k IN
         SubSeq(story, i + 2, Len(story))

\* _parse_user_story; the components 'action' and 'benefit' are extracted as
\* 'persona' is, and like it are read by none of the generators
parse_user_story(story) ==
    LET keywords == [i \in DOMAIN story |-> lower(story[i])]
        is_action(w) == \E i \in DOMAIN action_words : action_words[i] = w IN
    [persona |-> persona(story),
     detected_actions |-> SelectSeq(keywords, is_action),
     keywords |-> keywords]

generate_test_steps(action, scenario, test_type) ==
    IF test_type = "positive"
    THEN << <<"Navigate to ", action, " page">>,
            <<"Perform ", action, " with valid data">>,
            <<"Submit the form/request">>,
            <<"Verify successful completion">>,
            <<"Validate expected results">> >>
    ELSE << <<"Navigate to ", action, " page">>,
            <<"Attempt ", action, " with ", scenario>>,
            <<"Submit the form/request">>,
            <<"Verify appropriate error handling">>,
            <<"Ensure no system corruption">> >>

generate_functional_tests(story_parts, action) ==
    LET positive_scenarios ==
            IF action \in DOMAIN test_patterns THEN test_patterns[action].positive
            ELSE <<"valid scenario">>
        negative_scenarios ==
            IF action \in DOMAIN test_patterns THEN test_patterns[action].negative
            ELSE <<"invalid scenario">>
        positive == Take(positive_scenarios, 2)
        negative == Take(negative_scenarios, 2) IN
    [i \in 1..Len(positive) |->
        [id |-> FormatId("FUNC", i),
         name |-> <<"Positive: ", title(positive[i])>>,
         type |-> "functional",
         category |-> "positive",
         test_steps |-> generate_test_steps(action, positive[i], "positive"),
         expected_result |-> <<title(action), " succeeds with ", positive[i]>>,
         tags |-> <<action, "functional", "positive">>]]
    \o
    [i \in 1..Len(negative) |->
        [id |-> FormatId("FUNC", Len(positive) + i),
         name |-> <<"Negative: ", title(negative[i])>>,
         type |-> "functional",
         category |-> "negative",
         test_steps |-> generate_test_steps(action, negative[i], "negative"),
         expected_result |-> <<"Appropriate error message displayed for ", negative[i]>>,
         tags |-> <<action, "functional", "negative", "error-handling">>]]

generate_ui_tests(story_parts, action) ==
    LET ui_test_cases ==
            << [name |-> <<"UI: ", title(action), " Page Layout">>,
                test_steps |-> << <<"Navigate to ", action, " page">>,
                                  <<"Verify all UI elements are visible">>,
                                  <<"Check responsive design on different screen sizes">>,
                                  <<"Validate proper styling and formatting">> >>],
               [name |-> <<"UI: ", title(action), " Accessibility">>,
                test_steps |-> << <<"Access ", action, " page using keyboard navigation">>,
                                  <<"Verify all form elements have proper labels">>,
                                  <<"Check color contrast ratios">>,
                                  <<"Test with screen reader">> >>] >> IN
    [i \in 1..Len(ui_test_cases) |->
        [id |-> FormatId("UI", i),
         name |-> ui_test_cases[i].name,
         type |-> "ui",
         category |-> "ui-validation",
         test_steps |-> ui_test_cases[i].test_steps,
         expected_result |-> <<"UI meets design requirements for ", action>>,
         tags |-> <<action, "ui", "accessibility">>]]

generate_api_tests(story_parts, action) ==
    LET api_test_cases ==
            << [name |-> <<"API: ", title(action), " Endpoint Response">>,
                test_steps |-> << <<"Send GET/POST request to /api/", action>>,
                                  <<"Verify response status code (200/201)">>,
                                  <<"Validate response JSON structure">>,
                                  <<"Check response time < 2 seconds">> >>],
               [name |-> <<"API: ", title(action), " Error Handling">>,
                test_steps |-> << <<"Send invalid request to /api/", action>>,
                                  <<"Verify 4xx/5xx error status code">>,
                                  <<"Validate error message format">>,
                                  <<"Check error response structure">> >>] >> IN
    [i \in 1..Len(api_test_cases) |->
        [id |-> FormatId("API", i),
         name |-> api_test_cases[i].name,
         type |-> "api",
         category |-> "api-validation",
         test_steps |-> api_test_cases[i].test_steps,
         expected_result |-> <<"API responds correctly for ", action, " operations">>,
         tags |-> <<action, "api", "validation">>]]

generate_integration_tests(story_parts, action) ==
    << [id |-> FormatId("INT", 1),
        name |-> <<"Integration: ", title(action), " with External Systems">>,
        type |-> "integration",
        category |-> "system-integration",
        test_steps |-> << <<"Execute ", action, " workflow">>,
                          <<"Verify data flows between systems">>,
                          <<"Check external service integration">>,
                          <<"Validate end-to-end process completion">> >>,
        expected_result |-> <<title(action), " works seamlessly across all integrated systems">>,
        tags |-> <<action, "integration", "end-to-end">>] >>

generate_security_tests(story_parts, action) ==
    LET security_tests ==
            << [name |-> <<"Security: ", title(action), " Authorization">>,
                test_steps |-> << <<"Attempt ", action, " without proper permissions">>,
                                  <<"Verify 403/401 error response">>,
                                  <<"Test with different user roles">>,
                                  <<"Validate access control enforcement">> >>],
               [name |-> <<"Security: ", title(action), " Input Validation">>,
                test_steps |-> << <<"Provide malicious input to ", action, " function">>,
                                  <<"Test for SQL injection vulnerabilities">>,
                                  <<"Check XSS prevention">>,
                                  <<"Validate input sanitization">> >>] >> IN
    [i \in 1..Len(security_tests) |->
        [id |-> FormatId("SEC", i),
         name |-> security_tests[i].name,
         type |-> "security",
         category |-> "security-validation",
         test_steps |-> security_tests[i].test_steps,
         expected_result |-> <<title(action), " maintains security standards">>,
         tags |-> <<action, "security", "validation">>]]

\* The five generators applied to one action word.
tests_for_action(story_parts, action) ==
    generate_functional_tests(story_parts, action)
    \o generate_ui_tests(story_parts, action)
    \o generate_api_tests(story_parts, action)
    \o generate_integration_tests(story_parts, action)
    \o generate_security_tests(story_parts, action)

generate_test_cases_last_action(story_parts, story_type) ==
    LET detected == story_parts.detected_actions
        action == IF detected # <<>> THEN detected[Len(detected)] ELSE "general" IN
    tests_for_action(story_parts, action)

generate_test_cases(story_parts, story_type) ==
    LET detected == story_parts.detected_actions
        action == IF detected # <<>> THEN detected[1] ELSE "general" IN
    tests_for_action(story_parts, action)

generate_tests_from_story(user_story, story_type, confidence) ==
    LET story_parts == parse_user_story(user_story)
        test_cases == generate_test_cases(story_parts, story_type) IN
    [user_story |-> user_story,
     parsed_story |-> story_parts,
     generated_tests |-> test_cases,
     generated_at |-> now,
     test_count |-> Len(test_cases),
     confidence_score |-> confidence]

StoryTypes == {"general", "api"}

GenerateTestsFromStory ==
    \E user_story \in Stories, story_type \in StoryTypes, confidence \in Confidences :
        generated' = generate_tests_from_story(user_story, story_type, confidence)

(***************************************************************************)
(* NotificationSystem: custom rules, custom notifications and the history  *)
(***************************************************************************)
MaxLimit == 2  \* largest limit given to get_notification_history

\* The custom_rules lists a caller hands to send_test_results_notification.
CustomRuleLists ==
    { <<>>,
      << Rule("Mine", "console", "low", {}, "test_summary", TRUE, 0) >>,
      << Rule("Never", "console", "critical", {Cond("min_failures", 3, 1)},
              "test_summary", TRUE, 0) >> }

\* The result lists handed over together with custom rules.
CustomTestLists ==
    {<<>>, <<TestDict("PASSED", Num(1))>>, <<TestDict("FAILED", Num(1))>>}

Channels == {"console", "webhook", "slack"}
Messages == {"Hello", "Build is red"}
Overrides == {{}, {"slack"}, {"webhook"}}

\* send_test_results_notification(test_results, custom_rules)
SendBeginCustomRules ==
    \E ts \in CustomTestLists, custom_rules \in CustomRuleLists :
        send_test_results_notification(ts, custom_rules)

\* send_custom_notification(channel, message, config_override): a temporary
\* rule with the template "custom" and the summary {'custom': True} goes to
\* _send_notification; the old config comes back only if it is non-empty.
SendCustomNotification ==
    \E channel \in Channels, message \in Messages, config_override \in Overrides :
        /\ Returned
        /\ LET old_config == config
               overridden == IF config_override # {} THEN config \cup config_override
                             ELSE config
               rule == Rule("Custom", channel, "low", {}, "custom", TRUE, 60)
               summary == [NoSummary EXCEPT !.total = 0]
           IN \E result \in send_notification(0, rule, overridden, now) :
                /\ call' = [Idle EXCEPT !.pc = "done", !.results = <<result>>,
                                        !.body = generate_message(rule.template, summary)]
                /\ config' = IF config_override # {} /\ old_config # {} THEN old_config
                             ELSE overridden
                /\ query' = [op |-> "send_custom_notification",
                             arg |-> [channel |-> channel, message |-> message,
                                      config_override |-> config_override],
                             out |-> result, at |-> now]
        /\ UNCHANGED <<rules, last_notification_times, notification_history, now>>

\* notification_history[-limit:]
Last(history, limit) ==
    IF limit = 0 \/ limit >= Len(history) THEN history
    ELSE SubSeq(history, Len(history) - limit + 1, Len(history))

\* get_notification_history(limit)
GetNotificationHistory ==
    \E limit \in 0..MaxLimit :
        /\ Returned
        /\ query' = [op |-> "get_notification_history", arg |-> [limit |-> limit],
                     out |-> Last(notification_history, limit), at |-> now]
        /\ UNCHANGED notifyVars

\* clear_history()
ClearHistory ==
    /\ Returned
    /\ notification_history' = <<>>
    /\ query' = NoQuery
    /\ UNCHANGED <<rules, last_notification_times, config, now, call>>

(***************************************************************************)
(* NotificationSystem: result sets around the priority cutoffs             *)
(***************************************************************************)
MaxCutoffTests == 20  \* most test results in a result set around the cutoffs

\* One enabled rule for each priority and a disabled one, without
\* conditions and without a rate limit, as add_rule stores them.
PriorityRules ==
    << Rule("Critical", "console", "critical", {}, "test_summary", TRUE, 0),
       Rule("High", "console", "high", {}, "test_summary", TRUE, 0),
       Rule("Medium", "console", "medium", {}, "test_summary", TRUE, 0),
       Rule("Low", "console", "low", {}, "test_summary", TRUE, 0),
       Rule("Off", "console", "low", {}, "test_summary", FALSE, 0) >>

\* Result sets of p PASSED and f FAILED dicts filled up with SKIPPED ones,
\* with the rates on both sides of every cutoff; and the empty list.
CutoffLists ==
    {Repeat(TestDict("PASSED", Num(1)), c[1]) \o Repeat(TestDict("FAILED", Num(1)), c[2])
       \o Repeat(TestDict("SKIPPED", Num(1)), MaxCutoffTests - c[1] - c[2]) :
     c \in {d \in (9..MaxCutoffTests) \X (0..7) : d[1] + d[2] <= MaxCutoffTests}}
    \cup {<<>>}

\* send_test_results_notification(test_results) on these result sets
SendBeginCutoff == \E ts \in CutoffLists : send_test_results_notification(ts, <<>>)

(***************************************************************************)
(* Specifications                                                          *)
(***************************************************************************)
Init == AggInit /\ NotifyInit /\ EngineInit /\ QueryInit /\ GenInit

AggNext == AddResultsList \/ AddResultsFile \/ ClearResults
NotifyNext == AddRule \/ SendBegin \/ SendCheck \/ SendDeliver \/ SendReturn \/ Tick
EngineNext ==
    \/ CalculateExecutionMetrics \/ CalculateQualityMetrics
    \/ CalculatePerformanceMetrics \/ CalculateCoverageMetrics
    \/ CalculateTrendMetrics \/ CalculateComparativeMetrics \/ CalculateKpiSummary
    \/ AnalyzePerformance \/ AnalyzeFailurePatterns \/ AnalyzeTestQuality
    \/ AnalyzeTrends \/ GenerateInsights

\* The aggregator on its own.
Next == AggNext /\ UNCHANGED notifyVars /\ UNCHANGED engine /\ UNCHANGED <<query, generated>>
Spec == Init /\ [][Next]_vars

\* The notification system on its own, constructed with either config.
InitNotify ==
    /\ AggInit /\ EngineInit /\ QueryInit /\ GenInit
    /\ rules = default_rules
    /\ last_notification_times = [n \in RuleNames |-> NoTime]
    /\ notification_history = <<>>
    /\ config \in Configs
    /\ now = 0
    /\ call = Idle
NextNotify ==
    NotifyNext /\ UNCHANGED aggVars /\ UNCHANGED engine /\ UNCHANGED <<query, generated>>
SpecNotify == InitNotify /\ [][NextNotify]_vars

\* The aggregator with its queries, and the clock.
QueryNext ==
    \/ GetSummary \/ GetTestsByStatus \/ GetTestsBySuite \/ GetTestsByCategory
    \/ GetFailedTests \/ GetSlowestTests \/ GetTestDurationStats
    \/ GetTrendsOverTime \/ ExportConsolidatedResults
NextQuery ==
    /\ \/ AddResultsDict /\ UNCHANGED notifyVars /\ UNCHANGED engine
       \/ ClearResults /\ query' = NoQuery /\ UNCHANGED notifyVars /\ UNCHANGED engine
       \/ QueryNext /\ UNCHANGED notifyVars /\ UNCHANGED engine
       \/ Tick /\ UNCHANGED aggVars /\ UNCHANGED engine /\ UNCHANGED query
    /\ UNCHANGED generated
SpecQuery == Init /\ [][NextQuery]_vars

\* The CSV export of the report generator and a fresh aggregator.
NextCsv ==
    /\ \/ ExportToCsv /\ UNCHANGED notifyVars /\ UNCHANGED engine
       \/ AddResultsCsvExport /\ UNCHANGED notifyVars /\ UNCHANGED engine
       \/ ClearResults /\ query' = NoQuery /\ UNCHANGED notifyVars /\ UNCHANGED engine
    /\ UNCHANGED generated
SpecCsv == Init /\ [][NextCsv]_vars

\* The engines constructed with record sets of chosen failure counts: every
\* count up to MaxScoreTests records, and two large sets whose failure rate
\* lies just outside the band [5%, 15%].
ScoreDict(name, status, duration) ==
    [name |-> Str(name), status |-> status, duration |-> Num(duration)]
ScoreCounts ==
    {<<failed, total>> : failed \in 0..MaxScoreTests, total \in 1..MaxScoreTests}
    \cup {<<302, 6041>>, <<906, 6039>>}
ScoreInputs ==
    {Repeat(ScoreDict(name, "FAILED", d), c[1]) \o Repeat(ScoreDict(name, "PASSED", d), c[2] - c[1]) :
        name \in {"t", ""}, d \in {0, 1, 150}, c \in {x \in ScoreCounts : x[1] <= x[2]}}
InitScore ==
    /\ AggInit /\ NotifyInit /\ QueryInit /\ GenInit
    /\ \E ts \in ScoreInputs :
           engine = [fn |-> "none", input |-> ts, out |-> OutValue]
NextScore ==
    /\ \/ CalculateQualityMetrics \/ CalculateKpiSummary \/ AnalyzeTestQuality
       \/ CalculateEffectivenessScore \/ CalculateTestEffectiveness
    /\ UNCHANGED aggVars /\ UNCHANGED notifyVars /\ UNCHANGED <<query, generated>>
SpecScore == InitScore /\ [][NextScore]_vars

\* The engines on their own, constructed with any record set.
InitEngine ==
    /\ AggInit /\ NotifyInit /\ QueryInit /\ GenInit
    /\ \E ts \in SeqsUpTo(EngineDicts, MaxEngine) :
           engine = [fn |-> "none", input |-> ts, out |-> OutValue]
NextEngine ==
    EngineNext /\ UNCHANGED aggVars /\ UNCHANGED notifyVars /\ UNCHANGED <<query, generated>>
SpecEngine == InitEngine /\ [][NextEngine]_vars

\* The notification system with a rule of every priority, called with
\* result sets around the cutoffs.
InitCutoff ==
    /\ AggInit /\ EngineInit /\ QueryInit /\ GenInit
    /\ rules = default_rules \o PriorityRules
    /\ last_notification_times =
           [n \in RuleNames \cup {PriorityRules[i].name : i \in DOMAIN PriorityRules} |-> NoTime]
    /\ notification_history = <<>>
    /\ config \in Configs
    /\ now = 0
    /\ call = Idle
NextCutoff ==
    /\ SendBeginCutoff \/ SendCheck \/ SendDeliver \/ SendReturn
    /\ UNCHANGED aggVars /\ UNCHANGED engine /\ UNCHANGED <<query, generated>>
SpecCutoff == InitCutoff /\ [][NextCutoff]_vars

\* The notification system called with custom rules and custom
\* notifications, and its history.
NextCustom ==
    /\ \/ SendBeginCustomRules /\ UNCHANGED query
       \/ (SendCheck \/ SendDeliver \/ SendReturn) /\ UNCHANGED query
       \/ SendCustomNotification
       \/ GetNotificationHistory
       \/ ClearHistory
    /\ UNCHANGED aggVars /\ UNCHANGED engine /\ UNCHANGED generated
SpecCustom == InitNotify /\ [][NextCustom]_vars

\* The mock AI service called on any story, and the clock.
NextGen ==
    \/ GenerateTestsFromStory /\ UNCHANGED aggVars /\ UNCHANGED notifyVars
       /\ UNCHANGED <<engine, query>>
    \/ Tick /\ UNCHANGED aggVars /\ UNCHANGED <<engine, query, generated>>
SpecGen == Init /\ [][NextGen]_vars


(***************************************************************************)
(* Properties                                                              *)
(***************************************************************************)
CountedStatuses == {"PASSED", "FAILED", "SKIPPED", "ERROR"}
OtherCount(rs) == Cardinality({i \in DOMAIN rs : rs[i].status \notin CountedStatuses})

\* C1: after any sequence of add_results and clear_results calls get_summary()
\* returns counts with passed + failed + skipped + errors <= total; the sum
\* equals total when every held status is one of the four, and a record of
\* any other status is counted in total only.
C1_SummaryCountsWithinTotal ==
    LET s == get_summary(results)
        four == s.passed + s.failed + s.skipped + s.errors
    IN /\ ~s.raised
       /\ s.total = Len(results)
       /\ four <= s.total
       /\ OtherCount(results) = 0 => four = s.total
       /\ four = s.total - OtherCount(results)

\* C2: for every held record set get_summary() returns a pass_rate in
\* [0, 100] that equals passed / total * 100 when total > 0 and 0 when
\* total = 0.
C2_PassRateOfHeldRecords ==
    LET s == get_summary(results) IN
    /\ ~s.raised
    /\ RatLe(Rat(0, 1), s.pass_rate) /\ RatLe(s.pass_rate, Rat(100, 1))
    /\ Len(results) > 0 =>
           RatEq(s.pass_rate, Rat(Count(results, "PASSED") * 100, Len(results)))
    /\ Len(results) = 0 => RatEq(s.pass_rate, Rat(0, 1))

\* The rules the running call has dispatched: the one being delivered and
\* those with a result.
Dispatched ==
    {call.results[j].rule : j \in DOMAIN call.results}
    \cup (IF call.pc = "send" THEN {call.applicable[call.i]} ELSE {})

\* What a named condition compares, as the rule's author means it: the
\* failure count, the failure rate, the pass rate, the slow test count.
ConditionHolds(summary, c) ==
    CASE c.name \in {"min_failures"} -> RatLe(c.threshold, Rat(summary.failed, 1))
      [] c.name \in {"max_failures"} -> RatLe(Rat(summary.failed, 1), c.threshold)
      [] c.name = "failure_rate_threshold" -> RatLe(c.threshold, summary.failure_rate)
      [] c.name = "pass_rate_threshold" -> RatLe(c.threshold, summary.pass_rate)
      [] c.name = "min_slow_tests" -> RatLe(c.threshold, Rat(summary.slow_tests, 1))
      [] OTHER -> TRUE

\* C3: a rule is dispatched by send_test_results_notification only if every
\* named condition of its trigger_conditions holds against the computed
\* summary (min_ and _threshold: actual >= threshold, max_: actual <=
\* threshold); a rule with {'min_failures': 3} is not dispatched for a
\* result set with exactly 2 FAILED records.
C3_DispatchOnlyIfConditionsHold ==
    \A idx \in Dispatched :
        \A c \in rules[idx].trigger_conditions : ConditionHolds(call.summary, c)

\* A step that delivers for the rule that passed the rate-limit check.
Delivery == call.pc = "send" /\ call'.pc = "loop"
DeliveredRule == rules[call.applicable[call.i]]
DeliveryResult == call'.results[Len(call'.results)]

\* C4: a rule is sent only if the last successful send recorded for its name
\* is at least rate_limit_minutes ago, so two successful deliveries under
\* one name are at least rate_limit_minutes apart; the last-sent time of a
\* name is stamped with the current time exactly when a delivery for it
\* succeeds.
C4_RateLimitBetweenDeliveries ==
    [][ /\ Delivery =>
              /\ last_notification_times[DeliveredRule.name] # NoTime =>
                     now - last_notification_times[DeliveredRule.name]
                         >= DeliveredRule.rate_limit_minutes
              /\ DeliveryResult.success =>
                     last_notification_times' =
                         [last_notification_times EXCEPT ![DeliveredRule.name] = now]
        /\ last_notification_times' # last_notification_times =>
              Delivery /\ DeliveryResult.success ]_vars

\* C4 witness: a call has returned in which an applicable rule was held back
\* by the rate limit while its name carries a stamp.
C4_Witness ==
    /\ call.pc = "done"
    /\ \E k \in DOMAIN call.applicable :
          /\ \A j \in DOMAIN call.results : call.results[j].rule # call.applicable[k]
          /\ last_notification_times[rules[call.applicable[k]].name] # NoTime
          /\ now - last_notification_times[rules[call.applicable[k]].name]
                 < rules[call.applicable[k]].rate_limit_minutes

AttemptsFor(idx) == Cardinality({j \in DOMAIN call.results : call.results[j].rule = idx})

\* C5: a transport failure does not make send_test_results_notification
\* raise; the failing rule has exactly one delivery attempt in the call, its
\* result has success = False and non-empty error_details, the remaining
\* rules are still processed, and the failure does not stamp the last-sent
\* time.
C5_TransportFailureIsAResult ==
    /\ [](/\ \A j \in DOMAIN call.results :
                ~call.results[j].success =>
                    /\ call.pc # "raised"
                    /\ call.results[j].error_details \notin {NoError, ""}
                    /\ AttemptsFor(call.results[j].rule) = 1
          /\ call.pc = "done" =>
                \A k \in DOMAIN call.applicable :
                    last_notification_times[rules[call.applicable[k]].name] = NoTime
                        => AttemptsFor(call.applicable[k]) = 1)
    /\ [][Delivery /\ ~DeliveryResult.success =>
              last_notification_times' = last_notification_times]_vars

\* C5 witness: a call has returned whose results hold a failure followed by
\* the result of a later rule, the failed rule's name still unstamped.
C5_Witness ==
    /\ call.pc = "done"
    /\ \E j, m \in DOMAIN call.results :
          /\ j < m
          /\ ~call.results[j].success
          /\ last_notification_times[rules[call.results[j].rule].name] = NoTime

\* The records of a file that the loader of its format cannot convert.
Malformed(f, item) ==
    CASE f.kind = "json" -> ~item.dict
      [] f.kind = "csv" -> item.extra
      [] f.kind = "xml" -> ~xml_time(item).ok
      [] OTHER -> FALSE
MalformedCount(f) == Cardinality({j \in DOMAIN f.items : Malformed(f, f.items[j])})

\* The record a well-formed item of a file becomes.
ItemRecord(f, item) ==
    CASE f.kind = "json" -> TestResult(item)
      [] f.kind = "csv" -> TestResult(csv_row(f.hasDuration, item))
      [] OTHER -> TestResult([status |-> xml_status(item), duration |-> xml_time(item).v])

RECURSIVE WellFormedRecords(_, _)
WellFormedRecords(f, items) ==
    IF items = <<>> THEN <<>>
    ELSE IF Malformed(f, Head(items)) THEN WellFormedRecords(f, Tail(items))
    ELSE <<ItemRecord(f, Head(items))>> \o WellFormedRecords(f, Tail(items))

\* C6: for a JSON, CSV or JUnit XML file that is valid except for exactly one
\* malformed record, add_results(path) does not raise, drops only that
\* record and appends every other record of the file in file order.
C6_OneMalformedRecordIsSkipped ==
    (/\ last.op = "add_file"
     /\ last.file.kind \in {"json", "csv", "xml"}
     /\ last.file.wellformed
     /\ MalformedCount(last.file) = 1)
    => /\ ~last.raised
       /\ results = last.pre \o WellFormedRecords(last.file, last.file.items)

\* The precedence of the child elements of a testcase.
StatusByPrecedence(tc) ==
    CASE tc.skipped -> "SKIPPED"
      [] ~tc.skipped /\ tc.failure -> "FAILED"
      [] ~tc.skipped /\ ~tc.failure /\ tc.error -> "ERROR"
      [] OTHER -> "PASSED"

\* C7: the status of a record loaded from a JUnit XML testcase is SKIPPED
\* whenever a skipped child is present, otherwise FAILED if a failure child is
\* present, otherwise ERROR if an error child is present, otherwise PASSED.
C7_XmlStatusPrecedence ==
    (last.op = "add_file" /\ last.file.kind = "xml") =>
        \A j \in 1..(Len(results) - Len(last.pre)) :
            results[Len(last.pre) + j].status = StatusByPrecedence(last.file.items[j])

\* C7 witness: an XML file was loaded whose testcase with both an error and
\* a skipped child became a SKIPPED record.
C7_Witness ==
    /\ last.op = "add_file" /\ last.file.kind = "xml"
    /\ \E j \in 1..(Len(results) - Len(last.pre)) :
          /\ last.file.items[j].error /\ last.file.items[j].skipped
          /\ results[Len(last.pre) + j].status = "SKIPPED"

\* C8: every record created by the normalizer, from a dict or from a JSON,
\* CSV or XML file, has a numeric duration, and no error is raised for a
\* duration that cannot be parsed.
C8_DurationIsNumeric ==
    /\ \A i \in DOMAIN results : results[i].duration.k = "num"
    /\ (/\ last.op = "add_file"
        /\ last.file.wellformed
        /\ last.file.kind \in {"json", "csv", "xml"}) => ~last.raised

\* C9: for an empty record set every MetricsCalculator metric function
\* returns exactly {'error': 'No test results available'} and does not raise.
C9_MetricsOnEmptyInput ==
    (engine.fn \in MetricsFunctions /\ engine.input = <<>>) =>
        engine.out = [kind |-> "error", text |-> "No test results available"]

\* C9 witness: calculate_trend_metrics was applied to the empty record set.
C9_Witness ==
    /\ engine.fn = "calculate_trend_metrics"
    /\ engine.input = <<>>
    /\ engine.out.kind = "error"

\* C10: for an empty record set every public AnalyticsEngine function returns
\* a sentinel or error-shaped result and does not raise.
C10_AnalyticsOnEmptyInput ==
    (engine.fn \in AnalyticsFunctions /\ engine.input = <<>>) =>
        engine.out.kind \in {"error", "message"}


\* C11: two consecutive calls of get_summary() with no add_results or
\* clear_results between them return the same summary, every field equal,
\* whatever time passes between the calls.
C11_SummaryIsIdempotent ==
    [][(query.op = "get_summary" /\ query'.op = "get_summary")
          => query'.out = query.out]_vars

\* C12: get_slowest_tests(n), n >= 0, returns min(n, total) records in
\* non-increasing duration order; they are the n records of largest
\* duration, and records of equal duration come in the order they were
\* added.
StableTopN(rs, out) ==
    \E f \in [DOMAIN out -> DOMAIN rs] :
        /\ \A k \in DOMAIN out : out[k] = rs[f[k]]
        /\ \A k, m \in DOMAIN out :
               k < m => \/ rs[f[k]].duration.n > rs[f[m]].duration.n
                        \/ /\ rs[f[k]].duration.n = rs[f[m]].duration.n
                           /\ f[k] < f[m]
        /\ \A j \in DOMAIN rs \ {f[k] : k \in DOMAIN out} :
               \A k \in DOMAIN out :
                   \/ rs[j].duration.n < rs[f[k]].duration.n
                   \/ /\ rs[j].duration.n = rs[f[k]].duration.n
                      /\ f[k] < j

C12_SlowestTests ==
    query.op = "get_slowest_tests" =>
        /\ ~query.out.raised
        /\ Len(query.out.out) = Min(query.arg, Len(results))
        /\ StableTopN(results, query.out.out)

\* C13: the file written by export_consolidated_results, loaded into a
\* fresh aggregator with add_results(path), gives as many records as are
\* held, in the same order, each with the same id, status and duration.
C13_ExportRoundTrip ==
    query.op = "export_consolidated_results" =>
        /\ query.out.written
        /\ LET loaded == load_from_file(<<>>, <<>>, exported_file(query.out.data)).results
           IN /\ Len(loaded) = Len(results)
              /\ \A i \in DOMAIN results :
                     /\ loaded[i].id = results[i].id
                     /\ loaded[i].status = results[i].status
                     /\ loaded[i].duration = results[i].duration

\* C15: every aggregator operation other than add_results and clear_results
\* (the queries and the export) leaves the held records and source_files
\* as they were: the same records in the same order.
C15_QueriesLeaveRecordsUnchanged ==
    [][(query'.op # "none" /\ now' = now)
          => (results' = results /\ source_files' = source_files)]_vars

\* A sort of the held records would have reordered them, and the call
\* returned.
C15_Witness ==
    /\ query.op = "get_slowest_tests"
    /\ ~query.out.raised
    /\ Len(results) = 2
    /\ results[1].duration.n < results[2].duration.n
    /\ query.out.out = <<results[2], results[1]>>

\* C16: in get_trends_over_time(period), for the periods hourly, daily and
\* weekly, every record whose timestamp parses is counted in exactly one
\* bucket (the hour, the day, the Monday of its week), a record whose
\* timestamp does not parse is counted in none, the totals of the buckets
\* add up to the number of records with a parsable timestamp, and each
\* bucket's pass_rate is passed / total * 100.
Parses(r) == r.timestamp.k \in {"iso", "isoZ"}
StartOfHour(t) == (t \div MinutesPerHour) * MinutesPerHour
StartOfDay(t) == (t \div MinutesPerDay) * MinutesPerDay
StartOfWeek(t) ==
    ((t \div MinutesPerDay) - ((t \div MinutesPerDay) % DaysPerWeek)) * MinutesPerDay
BucketOf(period, t) ==
    CASE period = "hourly" -> StartOfHour(t)
      [] period = "daily" -> StartOfDay(t)
      [] OTHER -> StartOfWeek(t)

C16_TrendBuckets ==
    (query.op = "get_trends_over_time" /\ query.arg \in {"hourly", "daily", "weekly"}
     /\ results # <<>>) =>
        /\ ~query.out.raised
        /\ LET trends == query.out.trends
               parsable == {i \in DOMAIN results : Parses(results[i])}
               members(n) == {i \in parsable :
                                 BucketOf(query.arg, results[i].timestamp.t)
                                     = trends[n].period}
           IN /\ \A n, m \in DOMAIN trends : trends[n].period = trends[m].period => n = m
              /\ \A i \in parsable : \E n \in DOMAIN trends : i \in members(n)
              /\ \A n \in DOMAIN trends :
                     /\ trends[n].total = Cardinality(members(n))
                     /\ trends[n].passed =
                            Cardinality({i \in members(n) : results[i].status = "PASSED"})
                     /\ RatEq(trends[n].pass_rate, Rat(trends[n].passed * 100, trends[n].total))
              /\ SeqSum([n \in DOMAIN trends |-> trends[n].total]) = Cardinality(parsable)

\* C17: the recent sub-summary of get_summary() counts the records whose
\* timestamp parses and lies within the last 24 hours and the records whose
\* timestamp does not parse, and no others; no timestamp makes get_summary
\* raise.
CountedRecent(r, t) ==
    \/ ~Parses(r)
    \/ r.timestamp.t >= t - RecentHours * MinutesPerHour

C17_RecentSubSummary ==
    (query.op = "get_summary" /\ results # <<>>
     /\ \A i \in DOMAIN results : results[i].duration.k = "num") =>
        /\ ~query.out.raised
        /\ query.out.recent_trends.total_recent =
               Cardinality({i \in DOMAIN results : CountedRecent(results[i], query.at)})

\* C14: for a list of record dicts that all have the same keys, writing
\* them with export_to_csv and loading the file with add_results(path)
\* gives one record per dict, with the same name, the same status and a
\* float duration equal to the dict's numeric duration.
C14_CsvRoundTrip ==
    (query.op = "export_to_csv" /\ last.op = "add_file") =>
        /\ ~last.raised
        /\ Len(results) = Len(query.arg)
        /\ \A i \in DOMAIN results :
               /\ results[i].name = query.arg[i].name
               /\ results[i].status = query.arg[i].status
               /\ results[i].duration = query.arg[i].duration

\* C18: for every non-empty record set with non-negative durations,
\* calculate_kpi_summary gives an overall_health_score that is the blend
\* 0.30 * pass_rate + 0.25 * reliability + 0.20 * max(0, 100 - mean
\* duration) + 0.15 * coverage score + 0.10 * efficiency, to the two
\* decimals it carries, and lies in [0, 100].
Blend(kpis) ==
    30 * kpis.test_pass_rate + 25 * kpis.test_reliability
    + 20 * Max(0, 10000 - kpis.test_performance)
    + 15 * kpis.test_coverage + 10 * kpis.execution_efficiency

C18_OverallHealthScore ==
    (engine.fn = "calculate_kpi_summary" /\ engine.input # <<>>) =>
        /\ engine.out.kind = "value"
        /\ engine.out.overall_health_score \in 0..10000
        /\ 100 * engine.out.overall_health_score - Blend(engine.out.kpis) \in -50..50

\* C19, as stated: for every non-empty record set the effectiveness score
\* lies in [0, 100], equals 100 exactly when the FAILED fraction is within
\* [5%, 15%], and outside the band follows the line through 70 at a failure
\* rate of 0 (below the band) and 0 at 65% and above (above the band).
FailedOf(ts) == CountDictsWith(ts, "FAILED")
InBand(ts) == 20 * FailedOf(ts) >= Len(ts) /\ 20 * FailedOf(ts) <= 3 * Len(ts)
\* The line outside the band; a score is within half a hundredth of it when
\* it is the value of the line, or a number of hundredths that close.
Line(ts) ==
    IF 20 * FailedOf(ts) < Len(ts)
    THEN Rat(70 * Len(ts) + 600 * FailedOf(ts), Len(ts))
    ELSE Rat(Max(0, 130 * Len(ts) - 200 * FailedOf(ts)), Len(ts))
WithinHalfHundredth(score, line) ==
    \/ score = line
    \/ /\ score.d = 100
       /\ 2 * (score.n * line.d - 100 * line.n) <= line.d
       /\ 2 * (100 * line.n - score.n * line.d) <= line.d
EffectivenessFunctions == {"_calculate_effectiveness_score", "_calculate_test_effectiveness"}

C19_EffectivenessExactlyInBand ==
    (engine.fn \in EffectivenessFunctions /\ engine.input # <<>>) =>
        LET score == engine.out.score IN
        /\ RatLe(Rat(0, 1), score) /\ RatLe(score, Rat(100, 1))
        /\ RatEq(score, Rat(100, 1)) <=> InBand(engine.input)
        /\ ~InBand(engine.input) => WithinHalfHundredth(score, Line(engine.input))
        /\ FailedOf(engine.input) = 0 => RatEq(score, Rat(70, 1))
        /\ 100 * FailedOf(engine.input) >= 65 * Len(engine.input) => RatEq(score, Rat(0, 1))

\* C19, amended: the score lies in [0, 100] and is 100 whenever the FAILED
\* fraction is within [5%, 15%]; outside the band it is the line (70 + 600 *
\* rate below, max(0, 130 - 200 * rate) above), which MetricsCalculator
\* rounds to two decimals and AnalyticsEngine leaves as it is, so that only
\* the unrounded score is 100 exactly when the fraction is in the band.
C19_EffectivenessScore ==
    (engine.fn \in EffectivenessFunctions /\ engine.input # <<>>) =>
        LET score == engine.out.score IN
        /\ RatLe(Rat(0, 1), score) /\ RatLe(score, Rat(100, 1))
        /\ InBand(engine.input) => RatEq(score, Rat(100, 1))
        /\ ~InBand(engine.input) => WithinHalfHundredth(score, Line(engine.input))
        /\ (engine.fn = "_calculate_test_effectiveness" /\ ~InBand(engine.input))
               => (score = Line(engine.input) /\ ~RatEq(score, Rat(100, 1)))
        /\ FailedOf(engine.input) = 0 => RatEq(score, Rat(70, 1))
        /\ 100 * FailedOf(engine.input) >= 65 * Len(engine.input) => RatEq(score, Rat(0, 1))

\* C19 witness: the rounded score of a set whose failure rate is above 65%,
\* where the line is below 0.
C19_Witness ==
    /\ engine.fn = "_calculate_effectiveness_score"
    /\ Len(engine.input) = 4
    /\ FailedOf(engine.input) = 3
    /\ engine.out.score = Rat(0, 100)

\* C20: test generation is a deterministic pattern lookup.  Whenever two
\* consecutive runs of generate_tests_from_story are given stories with the
\* same first action word (the first word of the story, lowercased, that is
\* one of the fixed action words; 'general' when there is none), and so in
\* particular the same story, their generated_tests lists are identical;
\* and every generated test is tagged with that action word.
FirstActionWord(story) ==
    LET isAction(i) == \E k \in DOMAIN action_words : action_words[k] = lower(story[i])
        hits == {i \in DOMAIN story : isAction(i)} IN
    IF hits = {} THEN "general"
    ELSE lower(story[CHOOSE i \in hits : \A j \in hits : i <= j])
MeetsCutoff(summary, priority) ==
    LET FailureAbove(n) == summary.failed * 100 > n * summary.total
        PassBelow(n) == summary.passed * 100 < n * summary.total IN
    \/ priority = "critical" /\ (FailureAbove(30) \/ PassBelow(50))
    \/ priority = "high" /\ (FailureAbove(20) \/ PassBelow(70))
    \/ priority = "medium" /\ (FailureAbove(10) \/ PassBelow(85))
    \/ priority = "low" /\ (FailureAbove(5) \/ PassBelow(95))
C21_DispatchOnlyAboveCutoff ==
    [][/\ Delivery =>
            /\ DeliveredRule.enabled
            /\ MeetsCutoff(call.summary, DeliveredRule.priority_threshold)
       /\ (Returned /\ call' # call /\ call'.pc = "done") =>
            /\ call'.results = <<>>
            /\ UNCHANGED <<rules, last_notification_times, notification_history, config>>]_vars
\* A call delivered for the MEDIUM rule and found the HIGH rule not
\* applicable, with a failure rate of exactly 20%; and returned.
C21_Witness ==
    /\ call.pc = "done"
    /\ call.summary.total = MaxCutoffTests
    /\ call.summary.failed * 5 = call.summary.total
    /\ call.summary.passed * 100 >= 70 * call.summary.total
    /\ \E i \in DOMAIN call.results : rules[call.results[i].rule].name = "Medium"
    /\ \A i \in DOMAIN call.results : rules[call.results[i].rule].name \notin {"High", "Off"}

\* C22: a call of send_test_results_notification with a non-empty
\* custom_rules list evaluates the given rules: the applicable rules of the
\* call are the custom rules that are enabled, meet their priority cutoff
\* and pass their conditions, and every delivery of the call is for one of
\* the custom rules.
C22_CustomRulesAreEvaluated ==
    [][/\ (Returned /\ call'.pc = "loop" /\ call'.custom_rules # <<>>) =>
            LET given == evaluate_rules(call'.custom_rules, call'.summary) IN
            /\ Len(call'.applicable) = Len(given)
            /\ \A i \in DOMAIN given :
                   rules[call'.applicable[i]] = call'.custom_rules[given[i]]
       /\ (Delivery /\ call.custom_rules # <<>>) =>
            \E k \in DOMAIN call.custom_rules : call.custom_rules[k] = DeliveredRule]_vars

\* C23: send_custom_notification(channel, message) hands the caller's
\* message text to the transport as the body.
CustomSent ==
    Returned /\ query'.op = "send_custom_notification" /\ call'.results = <<query'.out>>
C23_CustomMessageIsDelivered ==
    [][CustomSent => call'.body = <<query'.arg.message>>]_vars

\* C24: the config_override of send_custom_notification is temporary: the
\* config after the call equals the config before it, whatever the initial
\* config and the override.
C24_OverrideIsTemporary ==
    [][CustomSent => config' = config]_vars

\* C26: every delivery attempt, of send_test_results_notification and of
\* send_custom_notification, is appended to the history with its success
\* flag and error detail, and get_notification_history(limit) returns the
\* last min(limit, k) of the k attempts recorded since the last clear.
LastAttempts(history, limit) ==
    LET n == IF limit < Len(history) THEN limit ELSE Len(history) IN
    SubSeq(history, Len(history) - n + 1, Len(history))
C26_AttemptsAreRecorded ==
    [][/\ Delivery => notification_history' = Append(notification_history, DeliveryResult)
       /\ CustomSent => notification_history' = Append(notification_history, query'.out)
       /\ query'.op = "get_notification_history" =>
              query'.out = LastAttempts(notification_history', query'.arg.limit)]_vars

\* C25: with the default rules, a call with a non-empty result set in
\* which every test PASSED, made when the 'Success Notification' rule is not
\* rate-limited, returns a result for that rule on the console channel.
C25_SuccessNotification ==
    [][(/\ call.pc = "loop" /\ call'.pc = "done"
        /\ rules = default_rules
        /\ call.summary.total > 0
        /\ call.summary.passed = call.summary.total
        /\ last_notification_times["Success Notification"] = NoTime)
       => \E i \in DOMAIN call'.results :
              /\ rules[call'.results[i].rule].name = "Success Notification"
              /\ call'.results[i].channel = "console"]_vars

\* C27: a call of add_results that raises (a missing file, an unsupported
\* extension, a malformed JSON or XML file, a list with an element that is
\* neither a dict nor a TestResult) leaves results and source_files exactly
\* as they were before the call.
C27_RaisingAddChangesNothing ==
    [][(last'.op \in {"add_list", "add_file"} /\ last'.raised)
       => (results' = results /\ source_files' = source_files)]_vars

\* C28: for every held record set, get_tests_by_status(S) returns as many
\* records as get_summary() counts for S (PASSED, FAILED, SKIPPED, ERROR),
\* and get_failed_tests() returns summary failed + errors records.
SummaryCount(summary, status) ==
    CASE status = "PASSED" -> summary.passed
      [] status = "FAILED" -> summary.failed
      [] status = "SKIPPED" -> summary.skipped
      [] OTHER -> summary.errors
C28_FiltersAgreeWithSummary ==
    LET summary == get_summary(results) IN
    /\ (query.op = "get_tests_by_status" /\ query.arg \in CountedStatuses) =>
           /\ ~summary.raised
           /\ Len(query.out) = SummaryCount(summary, query.arg)
    /\ query.op = "get_failed_tests" =>
           /\ ~summary.raised
           /\ Len(query.out) = summary.failed + summary.errors

\* C29: for every non-empty record set the median of
\* get_test_duration_stats() equals the median analyze_performance()
\* reports for the same durations (the mean of the two middle durations
\* when their number is even), and min <= median <= max.
C29_MediansAgree ==
    (query.op = "get_test_duration_stats" /\ results # <<>>) =>
        LET performance == analyze_performance(results) IN
        /\ ~query.out.raised
        /\ performance.kind = "value"
        /\ RatEq(Rat(query.out.median, 1), performance.median)
        /\ query.out.min <= query.out.median
        /\ query.out.median <= query.out.max

\* C30: for every non-empty record set, also one in which no record has a
\* name, calculate_quality_metrics returns a result without raising, with
\* maintainability_score in [0, 100] and reliability_score equal to
\* min(100, pass_rate + 5); and so calculate_kpi_summary does not raise
\* either.  Scores are in hundredths.
PassRatePlusBonus(ts) ==
    LET passed == Cardinality({i \in DOMAIN ts : ts[i].status = "PASSED"}) IN
    IF passed * 100 + 5 * Len(ts) >= 100 * Len(ts) THEN Rat(100, 1)
    ELSE Rat(passed * 100 + 5 * Len(ts), Len(ts))
C30_QualityMetricsDoNotRaise ==
    /\ (engine.fn = "calculate_quality_metrics" /\ engine.input # <<>>) =>
           /\ engine.out.kind = "value"
           /\ engine.out.maintainability_score \in 0..10000
           /\ RatEq(Rat(engine.out.reliability_score, 100), PassRatePlusBonus(engine.input))
    /\ (engine.fn = "calculate_kpi_summary" /\ engine.input # <<>>) =>
           engine.out.kind = "value"

====
